---- MODULE Spec2Model ----
(***************************************************************************)
(* Model of the mixemy generic repository / service layer.                 *)
(*                                                                         *)
(* The session handed in by the caller is modelled as a record that the    *)
(* repository helpers thread through their calls: the rows visible in the  *)
(* open transaction (in the engine's scan order), the instances the        *)
(* session owns, the instances registered but not yet written, and the     *)
(* trace of session calls made by the operation.  Every action below is    *)
(* one whole public operation of the repository or service.                *)
(***************************************************************************)
EXTENDS Integers, Sequences, FiniteSets, TLC

\* ------------------------------------------------------------------ bounds
MaxRecords == 2       \* primary keys handed out by the store: 1..MaxRecords
MaxTime == 2          \* creation timestamps: 1..MaxTime
MaxListLen == 2       \* longest list held by a list-valued filter field
MaxOffset == 1        \* largest offset of a pagination filter
MaxLimit == 2         \* largest limit of a pagination filter
MaxCalls == 6         \* session calls of one operation the engine may fail

\* ------------------------------------------------------------------ values
Null == "None"                         \* Python None / SQL NULL of a text attribute
NoneInt == -1                          \* Python None of an integer attribute
Values == {"x", "y"}                   \* contents of the non-null column `value`
NullableValues == {Null, "n"}          \* contents of the nullable column
Times == 1 .. MaxTime
Ids == 1 .. MaxRecords
AbsentId == MaxRecords + 1             \* a key the store never hands out
Tri == {"True", "False", "None"}       \* bool | None of a per-call override

\* attributes of the record type (hasattr(self.model, name) holds for these)
ModelAttributes == {"id", "value", "nullable_value", "created_at"}

Max(a, b) == IF a >= b THEN a ELSE b
Min(a, b) == IF a <= b THEN a ELSE b

\* all sequences over S of length at most n
SeqsUpTo(S, n) == UNION {[1 .. k -> S] : k \in 0 .. n}

\* ------------------------------------------------------------------ schemas
\* unpack_schema as it would be with a dump that also drops the fields set
\* to None (exclude_none=True)
unpack_schema_exclude_none(schema, exclude) ==
    [f \in {g \in (DOMAIN schema) \ exclude : schema[g] # Null} |-> schema[f]]

\* A schema object is the function from its explicitly-set field names to
\* their values; unpack_schema dumps it with exclude_unset=True and drops the
\* excluded names.
unpack_schema(schema, exclude) ==
    [f \in (DOMAIN schema) \ exclude |-> schema[f]]

\* to_model as it would be if it passed on the required field only
to_model_required_only(schema) ==
    LET d == unpack_schema(schema, {})
    IN [id |-> 0,
        value |-> IF "value" \in DOMAIN d THEN d["value"] ELSE Null,
        nullable_value |-> Null,
        created_at |-> 0]

\* to_model: model(**unpack_schema(schema)); attributes the schema did not
\* carry are left at None, the key and the creation time are not yet known.
to_model(schema) ==
    LET d == unpack_schema(schema, {})
    IN [id |-> 0,
        value |-> IF "value" \in DOMAIN d THEN d["value"] ELSE Null,
        nullable_value |-> IF "nullable_value" \in DOMAIN d
                             THEN d["nullable_value"] ELSE Null,
        created_at |-> 0]

\* to_schema: schema.model_validate(model), the projection on the output
\* schema's fields.
to_schema(model) ==
    IF "sub_items" \in DOMAIN model
    THEN [id |-> model.id,
          sub_items |-> [i \in 1 .. Len(model.sub_items) |->
                            [value |-> model.sub_items[i].value]],
          singular_sub_item |-> [value |-> model.singular_sub_item.value]]
    ELSE [id |-> model.id, value |-> model.value,
          nullable_value |-> model.nullable_value]

\* A nested schema object as the record type's constructor receives it: an
\* instance of the related record type when it was converted, the dict
\* model_dump made of it when it was passed through as it is.
Nested(kind, d) == [kind |-> kind, value |-> d.value]

\* the recursive conversion as it would be if it built the nested list back
\* to front
to_model_reversed(schema, recursive_conversion) ==
    LET d == unpack_schema(schema, {})
        kind == IF recursive_conversion THEN "model" ELSE "dict"
        n == Len(d.sub_items)
    IN [id |-> 0, created_at |-> 0,
        sub_items |-> [i \in 1 .. n |-> Nested(kind, d.sub_items[n + 1 - i])],
        singular_sub_item |-> Nested(kind, d.singular_sub_item)]

\* to_model with recursive_conversion: the schema is unpacked; in recursive
\* mode its nested schema objects and lists are themselves unpacked and
\* converted before they are assigned, otherwise they are passed through
to_model_recursive(schema, recursive_conversion) ==
    LET d == unpack_schema(schema, {})
        kind == IF recursive_conversion THEN "model" ELSE "dict"
    IN [id |-> 0, created_at |-> 0,
        sub_items |-> [i \in 1 .. Len(d.sub_items) |->
                          Nested(kind, d.sub_items[i])],
        singular_sub_item |-> Nested(kind, d.singular_sub_item)]

\* the record type's constructor takes instances of the related record type
\* for its relationships and refuses anything else
Constructs(model) ==
    /\ model.singular_sub_item.kind = "model"
    /\ \A i \in 1 .. Len(model.sub_items) : model.sub_items[i].kind = "model"

\* ------------------------------------------------------------------ session
\* One call made on the session: its name, the key of the instance it is
\* about (0 when it is about none) and the row-lock flag of a get / execute.
\* session is the handle of the session the call was made on.
CallOn(session, name, id, lock) ==
    [call |-> name, id |-> id, lock |-> lock, session |-> session]

\* the session handle the caller holds
CallerSession == 1

\* the sessions there are: the caller may hold more than one
Sessions == {1, 2}

\* a call on the caller's session
Call(name, id, lock) == CallOn(CallerSession, name, id, lock)

NoRow == [id |-> 0, value |-> Null, nullable_value |-> Null, created_at |-> 0]

TableIds(table) == {table[i].id : i \in 1 .. Len(table)}

RowOf(table, id) ==
    IF id \in TableIds(table)
    THEN table[CHOOSE i \in 1 .. Len(table) : table[i].id = id]
    ELSE NoRow

\* The session at the start of an operation: what earlier operations left
\* (rows, owned instances, next key), nothing registered, an empty trace.
\* `fault` is what the engine will do to the calls made on it: its call
\* number fault.at raises fault.error (no call raises when fault.at = 0).
OpenSession(handle, table, owned, nextId, now, fault) ==
    [handle |-> handle, table |-> table, owned |-> owned, nextId |-> nextId,
     now |-> now, new |-> <<>>, dirty |-> <<>>, deleted |-> {},
     inserted |-> 0, log |-> <<>>, err |-> "none", fault |-> fault,
     awaits |-> 0]

NoFault == [at |-> 0, error |-> "none"]

\* the next call on the session is the one the engine fails
Raises(s) == s.fault.at = Len(s.log) + 1

\* a call that raises: it was made, it had no effect, its error is in the air
Raised(s, name, id, lock) ==
    [s EXCEPT !.log = Append(s.log, CallOn(s.handle, name, id, lock)),
              !.err = s.fault.error]

\* the rows after the pending INSERTs, UPDATEs and DELETEs are written
RECURSIVE WriteDirty(_, _)
WriteDirty(table, dirty) ==
    IF dirty = <<>> THEN table
    ELSE LET d == Head(dirty)
             t == [i \in 1 .. Len(table) |->
                      IF table[i].id = d.key THEN d.row ELSE table[i]]
         IN WriteDirty(t, Tail(dirty))

Written(s) ==
    LET upd == WriteDirty(s.table, s.dirty)
        kept == SelectSeq(upd, LAMBDA r : r.id \notin s.deleted)
        ins == [i \in 1 .. Len(s.new) |->
                  [s.new[i] EXCEPT !.id = s.nextId + i - 1,
                                   !.created_at = s.now]]
    IN [s EXCEPT !.table = kept \o ins,
                 !.owned = s.owned \cup {ins[i].id : i \in 1 .. Len(ins)},
                 !.nextId = s.nextId + Len(ins),
                 !.inserted = IF Len(s.new) = 0 THEN s.inserted
                              ELSE ins[Len(ins)].id,
                 !.new = <<>>, !.dirty = <<>>, !.deleted = {}]

\* db_session.flush()
SessionFlush(s) ==
    IF s.err # "none" THEN s
    ELSE IF Raises(s) THEN Raised(s, "flush", 0, FALSE)
    ELSE [Written(s) EXCEPT !.log = Append(s.log, CallOn(s.handle, "flush", 0, FALSE))]

\* db_session.commit(): writes what is pending and ends the transaction; the
\* instances whose rows were deleted in it leave the session.
SessionCommit(s) ==
    IF s.err # "none" THEN s
    ELSE IF Raises(s) THEN Raised(s, "commit", 0, FALSE)
    ELSE LET w == Written(s)
         IN [w EXCEPT !.owned = w.owned \cap TableIds(w.table),
                      !.log = Append(s.log, CallOn(s.handle, "commit", 0, FALSE))]

\* db_session.add(instance): a transient instance (no key yet) becomes
\* pending, an instance with a key is (re)attached.
SessionAdd(s, obj) ==
    IF s.err # "none" THEN s
    ELSE IF Raises(s) THEN Raised(s, "add", obj.id, FALSE)
    ELSE IF obj.id = 0
         THEN [s EXCEPT !.new = Append(s.new, obj),
                        !.log = Append(s.log, CallOn(s.handle, "add", 0, FALSE))]
         ELSE [s EXCEPT !.owned = s.owned \cup {obj.id},
                        !.log = Append(s.log, CallOn(s.handle, "add", obj.id, FALSE))]

\* db_session.delete(instance): marks the instance for deletion
SessionDelete(s, obj) ==
    IF s.err # "none" THEN s
    ELSE IF Raises(s) THEN Raised(s, "delete", obj.id, FALSE)
    ELSE [s EXCEPT !.deleted = s.deleted \cup {obj.id},
                   !.owned = s.owned \cup {obj.id},
                   !.log = Append(s.log, CallOn(s.handle, "delete", obj.id, FALSE))]

\* db_session.refresh(instance): reloads a persistent instance from its row
SessionRefresh(s, id) ==
    IF s.err # "none" THEN s
    ELSE IF Raises(s) THEN Raised(s, "refresh", id, FALSE)
    ELSE IF id \in s.owned /\ id \in TableIds(s.table)
         THEN [s EXCEPT !.log = Append(s.log, CallOn(s.handle, "refresh", id, FALSE))]
         ELSE [s EXCEPT !.log = Append(s.log, CallOn(s.handle, "refresh", id, FALSE)),
                        !.err = "InvalidRequestError"]

\* db_session.expunge(instance): detaches an instance the session owns
SessionExpunge(s, id) ==
    IF s.err # "none" THEN s
    ELSE IF Raises(s) THEN Raised(s, "expunge", id, FALSE)
    ELSE IF id \in s.owned
         THEN [s EXCEPT !.owned = s.owned \ {id},
                        !.log = Append(s.log, CallOn(s.handle, "expunge", id, FALSE))]
         ELSE [s EXCEPT !.log = Append(s.log, CallOn(s.handle, "expunge", id, FALSE)),
                        !.err = "InvalidRequestError"]

\* db_session.get(model, id, with_for_update=...): the instance with that
\* key, now owned by the session, or None
SessionGet(s, id, lock) ==
    IF s.err # "none" THEN s
    ELSE IF Raises(s) THEN Raised(s, "get", id, lock)
    ELSE [s EXCEPT !.owned = IF id \in TableIds(s.table)
                             THEN s.owned \cup {id} ELSE s.owned,
                   !.log = Append(s.log, CallOn(s.handle, "get", id, lock))]

\* ------------------------------------------------------------------ repository
\* What an operation hands to the post-mutation policy and returns: None, one
\* instance, a sequence of instances (possibly empty), or a scalar (a count).
\* An instance is named by its key; key 0 is the instance registered by add
\* in this operation, whose key the write assigns.
NoneResult == [kind |-> "none", ids |-> <<>>, n |-> 0]
OneResult(id) == [kind |-> "one", ids |-> <<id>>, n |-> 0]
ManyResult(ids) == [kind |-> "many", ids |-> ids, n |-> 0]
ScalarResult(n) == [kind |-> "scalar", ids |-> <<>>, n |-> n]

\* the key an instance goes by once the pending writes are done
KeyOf(s, id) == IF id = 0 THEN s.inserted ELSE id

RECURSIVE RefreshEach(_, _)
RefreshEach(s, ids) ==
    IF ids = <<>> THEN s
    ELSE RefreshEach(SessionRefresh(s, KeyOf(s, Head(ids))), Tail(ids))

RECURSIVE ExpungeEach(_, _)
ExpungeEach(s, ids) ==
    IF ids = <<>> THEN s
    ELSE ExpungeEach(SessionExpunge(s, KeyOf(s, Head(ids))), Tail(ids))

\* the override as it would be written `flag or default`: an explicit False
\* does not switch a setting off
Resolve_or_default(flag, default) == flag = "True" \/ default

\* the three-valued override: an explicit True wins, None defers to the
\* repository's own setting, an explicit False loses
Resolve(flag, default) == flag = "True" \/ (flag = "None" /\ default)

\* the instances the policy walks: the sequence itself, or [db_object]; a
\* scalar result is wrapped the same way and is no mapped instance
Instances(db_object) ==
    IF db_object.kind = "scalar" THEN <<AbsentId>> ELSE db_object.ids

\* the policy as it would be with the commit / flush moved under the
\* `db_object is not None` test
_maybe_commit_or_flush_only_if_present(s, repo, db_object, auto_commit, auto_expunge, auto_refresh) ==
    LET s1 == IF db_object.kind = "none" THEN s
              ELSE IF Resolve(auto_commit, repo.auto_commit)
              THEN SessionCommit(s) ELSE SessionFlush(s)
        s2 == IF db_object.kind # "none"
                 /\ Resolve(auto_refresh, repo.auto_refresh)
              THEN RefreshEach(s1, Instances(db_object)) ELSE s1
        s3 == IF db_object.kind # "none"
                 /\ Resolve(auto_expunge, repo.auto_expunge)
              THEN ExpungeEach(s2, Instances(db_object)) ELSE s2
    IN s3

\* the policy as it would be with the expunge loop ahead of the refresh loop
_maybe_commit_or_flush_or_expunge_or_refresh(s, repo, db_object, auto_commit, auto_expunge, auto_refresh) ==
    LET s1 == IF Resolve(auto_commit, repo.auto_commit)
              THEN SessionCommit(s) ELSE SessionFlush(s)
        s2 == IF db_object.kind # "none"
                 /\ Resolve(auto_expunge, repo.auto_expunge)
              THEN ExpungeEach(s1, Instances(db_object)) ELSE s1
        s3 == IF db_object.kind # "none"
                 /\ Resolve(auto_refresh, repo.auto_refresh)
              THEN RefreshEach(s2, Instances(db_object)) ELSE s2
    IN s3

_maybe_commit_or_flush_or_refresh_or_expunge(s, repo, db_object, auto_commit, auto_expunge, auto_refresh) ==
    LET s1 == IF Resolve(auto_commit, repo.auto_commit)
              THEN SessionCommit(s) ELSE SessionFlush(s)
        s2 == IF db_object.kind # "none"
                 /\ Resolve(auto_refresh, repo.auto_refresh)
              THEN RefreshEach(s1, Instances(db_object)) ELSE s1
        s3 == IF db_object.kind # "none"
                 /\ Resolve(auto_expunge, repo.auto_expunge)
              THEN ExpungeEach(s2, Instances(db_object)) ELSE s2
    IN s3

\* _add as it would be if it caught the error of db_session.add and made
\* the call a second time
_add_retrying(s, repo, obj, auto_commit, auto_expunge, auto_refresh) ==
    LET s1 == SessionAdd(s, obj)
        s2 == IF s1.err = "none" THEN s1
              ELSE SessionAdd([s1 EXCEPT !.err = "none"], obj)
    IN _maybe_commit_or_flush_or_refresh_or_expunge(
           s2, repo, OneResult(obj.id), auto_commit, auto_expunge,
           auto_refresh)

\* _add: db_session.add, then the policy; returns the instance it was given
_add(s, repo, obj, auto_commit, auto_expunge, auto_refresh) ==
    _maybe_commit_or_flush_or_refresh_or_expunge(
        SessionAdd(s, obj), repo, OneResult(obj.id),
        auto_commit, auto_expunge, auto_refresh)

\* _delete as it would be if it only detached the instance
_delete_unmarked(s, repo, obj, auto_commit, auto_expunge) ==
    _maybe_commit_or_flush_or_refresh_or_expunge(
        s, repo, OneResult(obj.id), auto_commit, auto_expunge, "False")

\* _delete: db_session.delete, then the policy with auto_refresh=False
_delete(s, repo, obj, auto_commit, auto_expunge) ==
    _maybe_commit_or_flush_or_refresh_or_expunge(
        SessionDelete(s, obj), repo, OneResult(obj.id),
        auto_commit, auto_expunge, "False")

\* the value db_session.get returns
GetResult(s, id) ==
    IF id \in TableIds(s.table) THEN OneResult(id) ELSE NoneResult

\* _get as it would be with a lookup that raises for a missing key
_get_strict(s, repo, id, auto_expunge, with_for_update, auto_commit) ==
    LET s1 == SessionGet(s, id, with_for_update)
    IN IF id \in TableIds(s.table)
       THEN _maybe_commit_or_flush_or_refresh_or_expunge(
                s1, repo, GetResult(s, id), auto_commit, auto_expunge, "False")
       ELSE [s1 EXCEPT !.err = "NoResultFound"]

\* _get: db_session.get, then the policy with auto_refresh=False
_get(s, repo, id, auto_expunge, with_for_update, auto_commit) ==
    _maybe_commit_or_flush_or_refresh_or_expunge(
        SessionGet(s, id, with_for_update), repo, GetResult(s, id),
        auto_commit, auto_expunge, "False")

\* _update_db_object as it would be with a dump that keeps the unset fields
\* (exclude_unset=False): they overwrite the record with None
_update_db_object_unset_too(db_object, object_in) ==
    LET d == unpack_schema(object_in, {})
    IN [id |-> db_object.id,
        value |-> IF "value" \in DOMAIN d THEN d["value"] ELSE Null,
        nullable_value |-> IF "nullable_value" \in DOMAIN d
                           THEN d["nullable_value"] ELSE Null,
        created_at |-> db_object.created_at]

\* _update_db_object: every dumped field that is an attribute of the
\* instance is assigned, the others are skipped
_update_db_object(db_object, object_in) ==
    LET d == unpack_schema(object_in, {})
        Has(f) == f \in DOMAIN d /\ f \in ModelAttributes
    IN [id |-> IF Has("id") THEN d["id"] ELSE db_object.id,
        value |-> IF Has("value") THEN d["value"] ELSE db_object.value,
        nullable_value |-> IF Has("nullable_value") THEN d["nullable_value"]
                           ELSE db_object.nullable_value,
        created_at |-> IF Has("created_at") THEN d["created_at"]
                       ELSE db_object.created_at]

\* the assignments make the attached instance dirty: the next write stores it
Touch(s, key, obj) ==
    [s EXCEPT !.dirty = Append(s.dirty, [key |-> key, row |-> obj])]

\* ------------------------------------------------------------------ filters
\* A field value of a filter object: a list of texts, one text, or a number.
ListValue(items) == [isList |-> TRUE, items |-> items, num |-> 0]
TextValue(v) == [isList |-> FALSE, items |-> <<v>>, num |-> 0]
NumValue(n) == [isList |-> FALSE, items |-> <<>>, num |-> n]

EmptySchema == [f \in {} |-> Null]

\* the field names of a filter object, in declaration order
FilterFieldOrder ==
    <<"value", "nullable_value", "tag", "offset", "limit",
      "order_by", "order_direction">>

\* mixemy.schemas.paginations: the names of the pagination-only fields, the
\* two directions, and which filter classes are PaginationFilter /
\* AuditPaginationFilter instances
PaginationFields == {"limit", "offset"}
OrderDirection == [ASC |-> "asc", DESC |-> "desc"]
IsPaginationFilter(filters) == filters.kind \in {"pagination", "audit"}
IsAuditPaginationFilter(filters) == filters.kind = "audit"

\* filters=None
NoFilter ==
    [kind |-> "none", data |-> EmptySchema, offset |-> NoneInt,
     limit |-> NoneInt, order_by |-> Null, order_direction |-> Null]

\* ------------------------------------------------------------------ statements
\* select(self.model) / select(func.count()).select_from(self.model)
Select(what) ==
    [what |-> what, wheres |-> <<>>, offset |-> NoneInt, limit |-> NoneInt,
     order_by |-> <<>>, for_update |-> FALSE]

\* the predicates as they would be if only equality were implemented: a
\* list-valued field adds no predicate
RECURSIVE AddWheres_scalar_only(_, _, _)
AddWheres_scalar_only(statement, d, names) ==
    IF names = <<>> THEN statement
    ELSE LET item == Head(names)
             st == IF item \in DOMAIN d /\ item \in ModelAttributes
                      /\ ~d[item].isList
                   THEN [statement EXCEPT !.wheres =
                            Append(@, [attr |-> item,
                                       isList |-> FALSE,
                                       items |-> d[item].items])]
                   ELSE statement
         IN AddWheres_scalar_only(st, d, Tail(names))

RECURSIVE AddWheres(_, _, _)
AddWheres(statement, d, names) ==
    IF names = <<>> THEN statement
    ELSE LET item == Head(names)
             st == IF item \in DOMAIN d /\ item \in ModelAttributes
                   THEN [statement EXCEPT !.wheres =
                            Append(@, [attr |-> item,
                                       isList |-> d[item].isList,
                                       items |-> d[item].items])]
                   ELSE statement
         IN AddWheres(st, d, Tail(names))

\* the predicates as they would be without the hasattr test: a field that
\* is no attribute of the record type becomes a predicate no row satisfies
RECURSIVE AddWheres_unchecked(_, _, _)
AddWheres_unchecked(statement, d, names) ==
    IF names = <<>> THEN statement
    ELSE LET item == Head(names)
             st == IF item \notin DOMAIN d THEN statement
                   ELSE IF item \in ModelAttributes
                   THEN [statement EXCEPT !.wheres =
                            Append(@, [attr |-> item,
                                       isList |-> d[item].isList,
                                       items |-> d[item].items])]
                   ELSE [statement EXCEPT !.wheres =
                            Append(@, [attr |-> "id", isList |-> TRUE,
                                       items |-> <<>>])]
         IN AddWheres_unchecked(st, d, Tail(names))

_add_filters_unchecked(statement, filters) ==
    IF filters.kind # "none"
    THEN AddWheres_unchecked(statement,
                             unpack_schema(filters.data, PaginationFields),
                             FilterFieldOrder)
    ELSE statement

\* _add_filters: one predicate per dumped field that is an attribute of the
\* record type, IN for a list value and equality otherwise
_add_filters(statement, filters) ==
    IF filters.kind # "none"
    THEN AddWheres(statement, unpack_schema(filters.data, PaginationFields),
                   FilterFieldOrder)
    ELSE statement

\* _add_pagination as it would be if it applied the limit only
_add_pagination_limit_only(statement, filters) ==
    IF IsPaginationFilter(filters)
    THEN [statement EXCEPT !.limit = filters.limit]
    ELSE statement

\* BaseRepository._add_pagination
_add_pagination(statement, filters) ==
    IF IsPaginationFilter(filters)
    THEN [statement EXCEPT !.offset = filters.offset, !.limit = filters.limit]
    ELSE statement

\* AuditRepository._add_pagination as it would be with asc in both cases
Audit_add_pagination_asc_twice(statement, filters) ==
    LET st == _add_pagination(statement, filters)
    IN IF IsAuditPaginationFilter(filters)
          /\ filters.order_direction
                \in {OrderDirection.ASC, OrderDirection.DESC}
       THEN [st EXCEPT !.order_by =
                Append(@, [attr |-> filters.order_by, dir |-> "asc"])]
       ELSE st

\* AuditRepository._add_pagination
Audit_add_pagination(statement, filters) ==
    LET st == _add_pagination(statement, filters)
    IN IF IsAuditPaginationFilter(filters)
       THEN IF filters.order_direction = OrderDirection.ASC
            THEN [st EXCEPT !.order_by =
                     Append(@, [attr |-> filters.order_by, dir |-> "asc"])]
            ELSE IF filters.order_direction = OrderDirection.DESC
            THEN [st EXCEPT !.order_by =
                     Append(@, [attr |-> filters.order_by, dir |-> "desc"])]
            ELSE st
       ELSE st

\* _prepare_statement: the row lock is requested when with_for_update is set
_prepare_statement(statement, with_for_update) ==
    IF with_for_update THEN [statement EXCEPT !.for_update = TRUE]
    ELSE statement

\* ------------------------------------------------------------------ engine
\* one WHERE predicate on one row: col IN (...) never holds of NULL,
\* col = v holds of equal values, col == None is IS NULL
Holds(row, w) ==
    IF w.isList
    THEN row[w.attr] # Null
         /\ \E i \in 1 .. Len(w.items) : w.items[i] = row[w.attr]
    ELSE row[w.attr] = w.items[1]

\* the WHERE clauses as they would be if they were joined with OR
HoldsAny(row, wheres) ==
    wheres = <<>> \/ \E i \in 1 .. Len(wheres) : Holds(row, wheres[i])

\* successive .where() calls are joined with AND
HoldsAll(row, wheres) == \A i \in 1 .. Len(wheres) : Holds(row, wheres[i])

\* r comes strictly before e under one ORDER BY clause
ComesBefore(r, e, clause) ==
    IF clause.dir = "asc" THEN r[clause.attr] < e[clause.attr]
    ELSE r[clause.attr] > e[clause.attr]

RECURSIVE InsertOrdered(_, _, _)
InsertOrdered(sorted, r, clause) ==
    IF sorted = <<>> THEN <<r>>
    ELSE IF ComesBefore(r, Head(sorted), clause) THEN <<r>> \o sorted
    ELSE <<Head(sorted)>> \o InsertOrdered(Tail(sorted), r, clause)

RECURSIVE OrderRows(_, _, _)
OrderRows(rows, clause, acc) ==
    IF rows = <<>> THEN acc
    ELSE OrderRows(Tail(rows), clause, InsertOrdered(acc, Head(rows), clause))

\* ORDER BY c1, c2, ...: rows equal under every clause keep the scan order
RECURSIVE OrderByAll(_, _)
OrderByAll(rows, clauses) ==
    IF clauses = <<>> THEN rows
    ELSE OrderRows(OrderByAll(rows, Tail(clauses)), Head(clauses), <<>>)

\* OFFSET k LIMIT n, each absent when None
Page(rows, offset, limit) ==
    LET k == IF offset = NoneInt THEN 0 ELSE offset
        last == IF limit = NoneInt THEN Len(rows)
                ELSE Min(Len(rows), k + limit)
    IN SubSeq(rows, k + 1, last)

\* the rows a SELECT of the entity returns
ResultRows(table, statement) ==
    Page(OrderByAll(SelectSeq(table, LAMBDA r : HoldsAll(r, statement.wheres)),
                    statement.order_by),
         statement.offset, statement.limit)

\* the number a SELECT count(*) returns
ResultCount(table, statement) ==
    Cardinality({i \in 1 .. Len(table) : HoldsAll(table[i], statement.wheres)})

\* db_session.execute(statement): the instances loaded belong to the session
SessionExecute(s, statement) ==
    IF s.err # "none" THEN s
    ELSE IF Raises(s) THEN Raised(s, "execute", 0, statement.for_update)
    ELSE LET rows == IF statement.what = "entity"
                     THEN ResultRows(s.table, statement) ELSE <<>>
         IN [s EXCEPT !.owned = s.owned \cup TableIds(rows),
                      !.log = Append(s.log,
                              CallOn(s.handle, "execute", 0,
                                     statement.for_update))]

\* _execute_returning_all: prepare, execute, res.scalars().all(), the policy
_execute_returning_all(s, repo, statement, auto_commit, auto_expunge, auto_refresh, with_for_update) ==
    LET st == _prepare_statement(statement, with_for_update)
        rows == ResultRows(s.table, st)
        ids == [i \in 1 .. Len(rows) |-> rows[i].id]
    IN _maybe_commit_or_flush_or_refresh_or_expunge(
           SessionExecute(s, st), repo, ManyResult(ids),
           auto_commit, auto_expunge, auto_refresh)

\* _execute_returning_one: prepare, execute, res.scalar_one(), the policy
_execute_returning_one(s, repo, statement, auto_commit, auto_expunge, auto_refresh, with_for_update) ==
    LET st == _prepare_statement(statement, with_for_update)
    IN _maybe_commit_or_flush_or_refresh_or_expunge(
           SessionExecute(s, st), repo,
           ScalarResult(ResultCount(s.table, st)),
           auto_commit, auto_expunge, auto_refresh)

\* ------------------------------------------------------------------ operations
\* Each public operation maps the session it is given to the session it
\* leaves and the value it returns.
Outcome(s, result) == [s |-> s, result |-> result]

\* create as it would be if it passed auto_refresh=False as the reads do
create_unrefreshed(s, repo, db_object, auto_commit, auto_expunge, auto_refresh) ==
    LET s1 == _add(s, repo, db_object, auto_commit, auto_expunge, "False")
    IN Outcome(s1, OneResult(KeyOf(s1, db_object.id)))

\* BaseSyncRepository.create
create(s, repo, db_object, auto_commit, auto_expunge, auto_refresh) ==
    LET s1 == _add(s, repo, db_object, auto_commit, auto_expunge, auto_refresh)
    IN Outcome(s1, OneResult(KeyOf(s1, db_object.id)))

\* BaseSyncRepository.read
read(s, repo, id, auto_expunge, auto_commit, with_for_update) ==
    Outcome(_get(s, repo, id, auto_expunge, with_for_update, auto_commit),
            GetResult(s, id))

\* the statement read_multiple builds: select, filters, pagination (an audit
\* repository overrides _add_pagination and adds its ordering)
SelectStatement(repo, filters) ==
    LET st0 == _add_filters(Select("entity"), filters)
    IN IF repo.audit THEN Audit_add_pagination(st0, filters)
       ELSE _add_pagination(st0, filters)

\* the count statement as it would be without the filter predicates
CountStatement_unfiltered(filters) == Select("count")

\* the statement count builds: select count, filters
CountStatement(filters) == _add_filters(Select("count"), filters)

\* read_multiple as it would be if it left auto_refresh to the repository's
\* setting
read_multiple_refreshing(s, repo, filters, auto_commit, auto_expunge, with_for_update) ==
    LET st1 == SelectStatement(repo, filters)
        st2 == _prepare_statement(st1, with_for_update)
        rows == ResultRows(s.table, st2)
    IN Outcome(_execute_returning_all(s, repo, st1, auto_commit, auto_expunge,
                                      "None", with_for_update),
               ManyResult([i \in 1 .. Len(rows) |-> rows[i].id]))

\* BaseSyncRepository.read_multiple
read_multiple(s, repo, filters, auto_commit, auto_expunge, with_for_update) ==
    LET st1 == SelectStatement(repo, filters)
        st2 == _prepare_statement(st1, with_for_update)
        rows == ResultRows(s.table, st2)
    IN Outcome(_execute_returning_all(s, repo, st1, auto_commit, auto_expunge,
                                      "False", with_for_update),
               ManyResult([i \in 1 .. Len(rows) |-> rows[i].id]))

\* BaseSyncRepository.update_db_object
update_db_object(s, repo, key, db_object, object_in, auto_commit, auto_expunge, auto_refresh) ==
    LET changed == _update_db_object(db_object, object_in)
        s1 == _add(Touch(s, key, changed), repo, changed,
                   auto_commit, auto_expunge, auto_refresh)
    IN Outcome(s1, OneResult(changed.id))

\* BaseSyncRepository.update
update(s, repo, id, object_in, auto_commit, auto_expunge, auto_refresh, with_for_update) ==
    LET s1 == _get(s, repo, id, "False", with_for_update, "False")
    IN IF GetResult(s, id).kind # "none"
       THEN update_db_object(s1, repo, id, RowOf(s1.table, id), object_in,
                             auto_commit, auto_expunge, auto_refresh)
       ELSE Outcome(_maybe_commit_or_flush_or_refresh_or_expunge(
                        s1, repo, NoneResult,
                        auto_commit, auto_expunge, auto_refresh),
                    NoneResult)

\* BaseSyncRepository.delete_db_object
delete_db_object(s, repo, db_object, auto_commit, auto_expunge) ==
    _delete(s, repo, db_object, auto_commit, auto_expunge)

\* BaseSyncRepository.delete
delete(s, repo, id, auto_commit, auto_expunge, with_for_update) ==
    LET s1 == _get(s, repo, id, "False", with_for_update, "False")
    IN IF GetResult(s, id).kind # "none"
       THEN Outcome(delete_db_object(s1, repo, RowOf(s1.table, id),
                                     auto_commit, auto_expunge),
                    NoneResult)
       ELSE Outcome(_maybe_commit_or_flush_or_refresh_or_expunge(
                        s1, repo, NoneResult,
                        auto_commit, auto_expunge, "False"),
                    NoneResult)

\* repositories/sync/_base.py, the implementation behind IdSyncRepository:
\* its _get takes no with_for_update and asks for no lock
sync_base_get(s, repo, id, auto_expunge, auto_commit) ==
    _maybe_commit_or_flush_or_refresh_or_expunge(
        SessionGet(s, id, FALSE), repo, GetResult(s, id),
        auto_commit, auto_expunge, "False")

\* sync/_base.py update: _get with the caller's auto_expunge and the default
\* auto_commit=False; an absent id is returned as it is
sync_base_update(s, repo, id, object_in, auto_commit, auto_expunge, auto_refresh) ==
    LET s1 == sync_base_get(s, repo, id, auto_expunge, "False")
    IN IF GetResult(s, id).kind # "none"
       THEN update_db_object(s1, repo, id, RowOf(s1.table, id), object_in,
                             auto_commit, auto_expunge, auto_refresh)
       ELSE Outcome(s1, NoneResult)

\* sync/_base.py delete: the same read, delete_db_object when it found one
sync_base_delete(s, repo, id, auto_commit, auto_expunge) ==
    LET s1 == sync_base_get(s, repo, id, auto_expunge, "False")
    IN IF GetResult(s, id).kind # "none"
       THEN Outcome(delete_db_object(s1, repo, RowOf(s1.table, id),
                                     auto_commit, auto_expunge),
                    NoneResult)
       ELSE Outcome(s1, NoneResult)

\* BaseSyncRepository.count
count(s, repo, filters, auto_commit) ==
    LET st == CountStatement(filters)
    IN Outcome(_execute_returning_one(s, repo, st, auto_commit,
                                      "False", "False", FALSE),
               ScalarResult(ResultCount(s.table, st)))

\* ------------------------------------------------------------------ the asynchronous repository
\* `await db_session.x(...)`: the call is made on the session the
\* AsyncSession wraps and the coroutine is suspended until it returns;
\* s is the session before the call, s1 after it
Await(s, s1) ==
    IF Len(s1.log) > Len(s.log) THEN [s1 EXCEPT !.awaits = @ + 1] ELSE s1

RECURSIVE AsyncRefreshEach(_, _)
AsyncRefreshEach(s, ids) ==
    IF ids = <<>> THEN s
    ELSE AsyncRefreshEach(Await(s, SessionRefresh(s, KeyOf(s, Head(ids)))),
                          Tail(ids))

\* the asynchronous policy as it would be without the flush branch
async_maybe_commit_or_refresh_or_expunge(s, repo, db_object, auto_commit, auto_expunge, auto_refresh) ==
    LET s1 == IF Resolve(auto_commit, repo.auto_commit)
              THEN Await(s, SessionCommit(s)) ELSE s
        s2 == IF db_object.kind # "none"
                 /\ Resolve(auto_refresh, repo.auto_refresh)
              THEN AsyncRefreshEach(s1, Instances(db_object)) ELSE s1
        s3 == IF db_object.kind # "none"
                 /\ Resolve(auto_expunge, repo.auto_expunge)
              THEN ExpungeEach(s2, Instances(db_object)) ELSE s2
    IN s3

\* BaseAsyncRepository._maybe_commit_or_flush_or_refresh_or_expunge: commit,
\* flush and refresh are awaited, expunge is not
async_maybe_commit_or_flush_or_refresh_or_expunge(s, repo, db_object, auto_commit, auto_expunge, auto_refresh) ==
    LET s1 == IF Resolve(auto_commit, repo.auto_commit)
              THEN Await(s, SessionCommit(s)) ELSE Await(s, SessionFlush(s))
        s2 == IF db_object.kind # "none"
                 /\ Resolve(auto_refresh, repo.auto_refresh)
              THEN AsyncRefreshEach(s1, Instances(db_object)) ELSE s1
        s3 == IF db_object.kind # "none"
                 /\ Resolve(auto_expunge, repo.auto_expunge)
              THEN ExpungeEach(s2, Instances(db_object)) ELSE s2
    IN s3

\* BaseAsyncRepository._add: db_session.add is not awaited
async_add(s, repo, obj, auto_commit, auto_expunge, auto_refresh) ==
    async_maybe_commit_or_flush_or_refresh_or_expunge(
        SessionAdd(s, obj), repo, OneResult(obj.id),
        auto_commit, auto_expunge, auto_refresh)

\* BaseAsyncRepository._delete: await db_session.delete
async_delete_(s, repo, obj, auto_commit, auto_expunge) ==
    async_maybe_commit_or_flush_or_refresh_or_expunge(
        Await(s, SessionDelete(s, obj)), repo, OneResult(obj.id),
        auto_commit, auto_expunge, "False")

\* BaseAsyncRepository._get: await db_session.get
async_get(s, repo, id, auto_expunge, with_for_update, auto_commit) ==
    async_maybe_commit_or_flush_or_refresh_or_expunge(
        Await(s, SessionGet(s, id, with_for_update)), repo, GetResult(s, id),
        auto_commit, auto_expunge, "False")

\* the Result of an executed statement: one tuple per row, holding the
\* instance (its key) or the count
ExecuteResult(table, statement) ==
    IF statement.what = "entity"
    THEN LET rows == ResultRows(table, statement)
         IN [i \in 1 .. Len(rows) |-> <<rows[i].id>>]
    ELSE << <<ResultCount(table, statement)>> >>

\* Result.scalars(): the first column of every row
Scalars(res) == [i \in 1 .. Len(res) |-> res[i][1]]

\* BaseAsyncRepository._execute: prepare, await execute, res.scalars()
\* unless is_scalar is false
async_execute(s, statement, with_for_update, is_scalar) ==
    LET st == _prepare_statement(statement, with_for_update)
        res == ExecuteResult(s.table, st)
    IN [s |-> Await(s, SessionExecute(s, st)),
        res |-> IF ~is_scalar THEN res ELSE Scalars(res)]

\* BaseAsyncRepository._execute_returning_all: res.all(), the policy
async_execute_returning_all(s, repo, statement, auto_commit, auto_expunge, auto_refresh, with_for_update) ==
    LET e == async_execute(s, statement, with_for_update, TRUE)
        db_objects == ManyResult(e.res)
    IN Outcome(async_maybe_commit_or_flush_or_refresh_or_expunge(
                   e.s, repo, db_objects,
                   auto_commit, auto_expunge, auto_refresh),
               db_objects)

\* BaseAsyncRepository._execute_returning_one: res.one(), the policy
async_execute_returning_one(s, repo, statement, auto_commit, auto_expunge, auto_refresh, with_for_update) ==
    LET e == async_execute(s, statement, with_for_update, TRUE)
        db_object == ScalarResult(e.res[1])
    IN Outcome(async_maybe_commit_or_flush_or_refresh_or_expunge(
                   e.s, repo, db_object,
                   auto_commit, auto_expunge, auto_refresh),
               db_object)

\* BaseAsyncRepository.create
async_create(s, repo, db_object, auto_commit, auto_expunge, auto_refresh) ==
    LET s1 == async_add(s, repo, db_object, auto_commit, auto_expunge,
                        auto_refresh)
    IN Outcome(s1, OneResult(KeyOf(s1, db_object.id)))

\* BaseAsyncRepository.read
async_read(s, repo, id, auto_expunge, auto_commit, with_for_update) ==
    Outcome(async_get(s, repo, id, auto_expunge, with_for_update,
                      auto_commit),
            GetResult(s, id))

\* BaseAsyncRepository.read_multiple
async_read_multiple(s, repo, filters, auto_commit, auto_expunge, with_for_update) ==
    async_execute_returning_all(s, repo, SelectStatement(repo, filters),
                                auto_commit, auto_expunge, "False",
                                with_for_update)

\* BaseAsyncRepository.update with update_db_object
async_update(s, repo, id, object_in, auto_commit, auto_expunge, auto_refresh, with_for_update) ==
    LET s1 == async_get(s, repo, id, "False", with_for_update, "False")
        changed == _update_db_object(RowOf(s1.table, id), object_in)
    IN IF GetResult(s, id).kind # "none"
       THEN Outcome(async_add(Touch(s1, id, changed), repo, changed,
                              auto_commit, auto_expunge, auto_refresh),
                    OneResult(changed.id))
       ELSE Outcome(async_maybe_commit_or_flush_or_refresh_or_expunge(
                        s1, repo, NoneResult,
                        auto_commit, auto_expunge, auto_refresh),
                    NoneResult)

\* BaseAsyncRepository.delete with delete_db_object
async_delete(s, repo, id, auto_commit, auto_expunge, with_for_update) ==
    LET s1 == async_get(s, repo, id, "False", with_for_update, "False")
    IN IF GetResult(s, id).kind # "none"
       THEN Outcome(async_delete_(s1, repo, RowOf(s1.table, id),
                                  auto_commit, auto_expunge),
                    NoneResult)
       ELSE Outcome(async_maybe_commit_or_flush_or_refresh_or_expunge(
                        s1, repo, NoneResult,
                        auto_commit, auto_expunge, "False"),
                    NoneResult)

\* BaseAsyncRepository.count
async_count(s, repo, filters, auto_commit) ==
    async_execute_returning_one(s, repo, CountStatement(filters),
                                auto_commit, "False", "False", FALSE)

\* ------------------------------------------------------------------ classes and construction
\* A repository subclass: the base class it derives from, the names its body
\* defines, and the values of those it defines (the others are not read).
RepositoryClass(base, defines, id_attribute, commit, expunge, refresh, audit) ==
    [base |-> base, defines |-> defines, model_type |-> "Item",
     id_attribute |-> id_attribute,
     default_auto_commit |-> commit, default_auto_expunge |-> expunge,
     default_auto_refresh |-> refresh, audit |-> audit]

\* the class attributes the base class gives a value: BaseSyncRepository
\* sets id_attribute = "id", BaseRepository only annotates it, IdRepository
\* sets it again; all of them set the default_* attributes
BaseDefines(base) ==
    {"default_loader_options", "default_execution_options",
     "default_auto_expunge", "default_auto_refresh", "default_auto_commit"}
        \cup (IF base \in {"BaseSyncRepository", "IdRepository"}
              THEN {"id_attribute"} ELSE {})

\* hasattr(self, field) for a class attribute
HasAttr(cls, field) == field \in cls.defines \cup BaseDefines(cls.base)

\* self.<name> for a class attribute: the subclass's value, else the base's
ClassAttr(cls, name) ==
    IF name \in cls.defines THEN cls[name]
    ELSE CASE name = "id_attribute" -> "id"
           [] name = "default_auto_expunge" -> FALSE
           [] name = "default_auto_refresh" -> TRUE
           [] name = "default_auto_commit" -> FALSE

\* the mapped attributes of the record type, for getattr(self.model, name);
\* an id_attribute that is no string is such an attribute itself
Instrumented ==
    [id |-> "Item.id", value |-> "Item.value",
     nullable_value |-> "Item.nullable_value",
     created_at |-> "Item.created_at"]

IsStr(id_field) == \A a \in DOMAIN Instrumented : Instrumented[a] # id_field

\* what a constructor or a helper of it comes to: the error raised, if any,
\* and the instance as far as it got
Built(err, self) == [err |-> err, self |-> self]

\* the instance before __init__ has assigned anything; `assigned` names the
\* instance attributes set so far, `args` the arguments __init__ was called
\* with
NewRepository(cls, args) ==
    [class |-> cls, args |-> args, assigned |-> {},
     model |-> "unset", id_field |-> "unset",
     loader_options |-> "unset", execution_options |-> "unset",
     auto_expunge |-> FALSE, auto_refresh |-> FALSE, auto_commit |-> FALSE,
     audit |-> cls.audit]

Assign(self, name, value) ==
    [self EXCEPT ![name] = value, !.assigned = @ \cup {name}]

\* _verify_init as it would be if it looked at model_type only
Repository_verify_init_model_only(cls) ==
    IF ~HasAttr(cls, "model_type") THEN "MixemyRepositorySetupError"
    ELSE "none"

\* _verify_init: both names must be attributes of the instance
Repository_verify_init(cls) ==
    IF ~HasAttr(cls, "model_type") THEN "MixemyRepositorySetupError"
    ELSE IF ~HasAttr(cls, "id_attribute") THEN "MixemyRepositorySetupError"
    ELSE "none"

\* _set_id_field: the record type's attribute of that name, the attribute
\* itself when it is no string; AttributeError becomes the setup error
_set_id_field(self, id_field) ==
    IF ~IsStr(id_field) THEN Built("none", Assign(self, "id_field", id_field))
    ELSE IF id_field \in DOMAIN Instrumented
    THEN Built("none", Assign(self, "id_field", Instrumented[id_field]))
    ELSE Built("MixemyRepositorySetupError", self)

\* the arguments of __init__: "unpassed" is an argument left out of the call
ArgValues == {"unpassed", "None", "True", "False"}

InitArgs(loader, execution, commit, expunge, refresh) ==
    [loader_options |-> loader, execution_options |-> execution,
     auto_commit |-> commit, auto_expunge |-> expunge, auto_refresh |-> refresh]

NoArgs == InitArgs("unpassed", "unpassed", "unpassed", "unpassed", "unpassed")

\* a flag of __init__: the parameter's default when the argument is left
\* out, the class-level default when None is passed, else the value passed
InitFlag(arg, parameterDefault, classDefault) ==
    IF arg = "unpassed" THEN parameterDefault
    ELSE IF arg = "None" THEN classDefault
    ELSE arg = "True"

\* loader_options / execution_options: the parameter's default is None
InitOption(arg) == IF arg \in {"unpassed", "None"} THEN "default" ELSE arg

\* BaseSyncRepository.__init__
Repository__init__(cls, args) ==
    IF Repository_verify_init(cls) # "none"
    THEN Built(Repository_verify_init(cls), NewRepository(cls, args))
    ELSE LET s1 == Assign(NewRepository(cls, args), "model", cls.model_type)
             b == _set_id_field(s1, ClassAttr(cls, "id_attribute"))
         IN IF b.err # "none" THEN b
            ELSE LET s3 == Assign(b.self, "loader_options",
                                  InitOption(args.loader_options))
                     s4 == Assign(s3, "execution_options",
                                  InitOption(args.execution_options))
                     s5 == Assign(s4, "auto_expunge",
                              InitFlag(args.auto_expunge, FALSE,
                                  ClassAttr(cls, "default_auto_expunge")))
                     s6 == Assign(s5, "auto_refresh",
                              InitFlag(args.auto_refresh, TRUE,
                                  ClassAttr(cls, "default_auto_refresh")))
                     s7 == Assign(s6, "auto_commit",
                              InitFlag(args.auto_commit, FALSE,
                                  ClassAttr(cls, "default_auto_commit")))
                 IN Built("none", s7)

\* class ItemRepository(BaseSyncRepository[ItemModel]): model_type = ItemModel
ItemRepository ==
    RepositoryClass("BaseSyncRepository", {"model_type"}, "id",
                    FALSE, FALSE, FALSE, FALSE)

\* class AuditItemRepository: an audit repository of the same record type
AuditItemRepository ==
    RepositoryClass("BaseSyncRepository", {"model_type"}, "id",
                    FALSE, FALSE, FALSE, TRUE)

\* the attributes __init__ sets on a repository
RepositoryAttributes ==
    {"model", "id_field", "loader_options", "execution_options",
     "auto_expunge", "auto_refresh", "auto_commit"}

\* A service subclass: the names its body defines and the repository class
\* it names
ServiceClass(defines, repository_type) ==
    [defines |-> defines, repository_type |-> repository_type,
     output_schema_type |-> "ItemOutput",
     default_model_recursive_model_conversion |-> FALSE]

NewService(cls) ==
    [class |-> cls, assigned |-> {}, output_schema |-> "unset",
     model |-> "unset", db_session |-> 0,
     recursive_model_conversion |-> FALSE]

\* BaseSyncService._verify_init as it would be if it looked at
\* output_schema_type only
Service_verify_init_schema_only(cls) ==
    IF "output_schema_type" \notin cls.defines
    THEN "MixemyServiceSetupError" ELSE "none"

\* BaseSyncService._verify_init: the base class gives neither name a value
Service_verify_init(cls) ==
    IF "output_schema_type" \notin cls.defines THEN "MixemyServiceSetupError"
    ELSE IF "repository_type" \notin cls.defines
    THEN "MixemyServiceSetupError"
    ELSE "none"

\* what Service.__init__ comes to: the error, the service as far as it got,
\* the repository it instantiated and how many it instantiated
BuiltService(err, self, repository, instantiated) ==
    [err |-> err, self |-> self, repository |-> repository,
     instantiated |-> instantiated]

\* BaseSyncService.__init__(db_session): _verify_init, output_schema,
\* repository = repository_type(), model = repository.model, db_session,
\* recursive_model_conversion from the class default (the argument is None)
Service__init__(cls, db_session) ==
    IF Service_verify_init(cls) # "none"
    THEN BuiltService(Service_verify_init(cls), NewService(cls),
                      NewRepository(cls.repository_type, NoArgs), 0)
    ELSE LET s1 == Assign(NewService(cls), "output_schema",
                          cls.output_schema_type)
             r == Repository__init__(cls.repository_type, NoArgs)
         IN IF r.err # "none" THEN BuiltService(r.err, s1, r.self, 1)
            ELSE BuiltService("none",
                     Assign(Assign(Assign(s1, "model", r.self.model),
                                   "db_session", db_session),
                            "recursive_model_conversion",
                            cls.default_model_recursive_model_conversion),
                     r.self, 1)

\* class ItemService(BaseSyncService[...]) over a repository class
ServiceOver(repository_type) ==
    ServiceClass({"repository_type", "output_schema_type"}, repository_type)

\* class RecursiveItemService over the same repository class, with
\* default_model_recursive_model_conversion = True
RecursiveItemService(repository_type) ==
    [ServiceOver(repository_type)
        EXCEPT !.default_model_recursive_model_conversion = TRUE]

\* ------------------------------------------------------------------ state
VARIABLES
    table,      \* the rows of the record type, in the engine's scan order
    owned,      \* keys of the instances that belong to the caller's session
    nextId,     \* the next primary key the store hands out
    repo,       \* the repository instance
    service,    \* the service instance (its repository is repo)
    op,         \* the last operation called and its arguments
    stmt,       \* the statement the last operation executed, if any
    ret,        \* what the repository returned to the last operation
    out,        \* what the service returned for it
    log,        \* the session calls the last operation made, in order
    err,        \* the error the last operation raised, "none" if none
    created,    \* keys returned by create so far
    deleted,    \* keys of existing records passed to delete so far
    fault,      \* the failure the engine holds for the next operation
    txn         \* the update calls in progress on two sessions at once

vars == <<table, owned, nextId, repo, service, op, stmt, ret, out, log, err,
          created, deleted, fault, txn>>

\* no call is in progress beside the caller's own
NoTransactions == <<>>

\* the service as it would be if it opened a session of its own
ServiceSession_own(svc) == CHOOSE h \in Sessions : h # svc.db_session

\* db_session=self.db_session: the session a service passes to its
\* repository in every call
ServiceSession(svc) == svc.db_session

\* the caller's session as an operation finds it
Session(now) ==
    OpenSession(ServiceSession(service), table, owned, nextId, now, fault)

\* the repository result with its instances' attribute values
Returned(o) ==
    IF o.s.err # "none" THEN [kind |-> "raise", rows |-> <<>>, n |-> 0]
    ELSE [kind |-> o.result.kind,
          rows |-> [i \in 1 .. Len(o.result.ids) |->
                       RowOf(o.s.table, o.result.ids[i])],
          n |-> o.result.n]

\* the service's conversion as it would be if it built the list back to
\* front
ServiceOutput_reversed(r) ==
    [kind |-> r.kind,
     items |-> [i \in 1 .. Len(r.rows) |->
                   to_schema(r.rows[Len(r.rows) + 1 - i])],
     n |-> r.n]

\* the service's conversion of the repository result: _to_schema of every
\* returned record, None passed through
ServiceOutput(r) ==
    [kind |-> r.kind,
     items |-> [i \in 1 .. Len(r.rows) |-> to_schema(r.rows[i])],
     n |-> r.n]

Args(name, id, input, filters, auto_commit, auto_expunge, auto_refresh, lock) ==
    [name |-> name, id |-> id, input |-> input, filters |-> filters,
     auto_commit |-> auto_commit, auto_expunge |-> auto_expunge,
     auto_refresh |-> auto_refresh, with_for_update |-> lock]

NoStatement == Select("none")

\* no operation is in the caller's hands
NoCall == Args("idle", 0, EmptySchema, NoFilter, "None", "None", "None", "unpassed")

\* the state an operation leaves; the caller makes one call at a time and
\* looks at its result before the next
\* the instance as it would be left if an operation stored the resolved
\* per-call flags on it
SelfAfter_storing(self, args) ==
    [self EXCEPT
        !.auto_commit = (args.auto_commit = "True")
                           \/ (args.auto_commit = "None" /\ @),
        !.auto_expunge = (args.auto_expunge = "True")
                            \/ (args.auto_expunge = "None" /\ @),
        !.auto_refresh = (args.auto_refresh = "True")
                            \/ (args.auto_refresh = "None" /\ @)]

\* the instance after an operation: the operations read self.model,
\* self.id_field and the settings, keep the resolved values in locals
\* (current_loader_options, ...) and assign nothing to self
SelfAfter(self, args) == self

Leaves(o, args, statement) ==
    /\ op = NoCall
    /\ table' = o.s.table
    /\ owned' = o.s.owned
    /\ nextId' = o.s.nextId
    /\ log' = o.s.log
    /\ err' = o.s.err
    /\ ret' = Returned(o)
    /\ out' = ServiceOutput(Returned(o))
    /\ op' = args
    /\ stmt' = statement
    /\ repo' = SelfAfter(repo, args)
    /\ UNCHANGED <<service, fault, txn>>

\* the store's clock does not run backwards
ClockNow == {t \in Times : \A i \in 1 .. Len(table) : table[i].created_at <= t}

\* An operation is called with <<auto_commit, auto_expunge, auto_refresh,
\* with_for_update>>; with_for_update is "unpassed" in every call a service
\* makes, and then the parameter's default applies.
Passed(arg, parameterDefault) ==
    IF arg = "unpassed" THEN parameterDefault ELSE arg = "True"

\* the with_for_update defaults of the signatures
WithForUpdateDefault ==
    [read |-> FALSE, read_multiple |-> FALSE, update |-> TRUE,
     delete |-> FALSE]

\* the repository is one of repositories/sync/_base.py (derived from
\* BaseRepository), whose operations take no with_for_update
IsSyncBase(self) == self.class.base \in {"BaseRepository", "IdRepository"}

\* Service.create(object_in): to_model, repository.create, to_schema
Create(inputs, flags) ==
    /\ nextId <= MaxRecords
    /\ \E object_in \in inputs, f \in flags, now \in ClockNow :
          LET o == create(Session(now), repo, to_model(object_in),
                          f[1], f[2], f[3])
          IN /\ Leaves(o, Args("create", 0, object_in, NoFilter,
                               f[1], f[2], f[3], "unpassed"), NoStatement)
             /\ created' = created \cup TableIds(Returned(o).rows)
             /\ UNCHANGED deleted

\* Service.read(id): repository.read, to_schema unless None
Read(ids, flags) ==
    \E id \in ids, f \in flags :
       LET o == read(Session(1), repo, id, f[2], f[1],
                     Passed(f[4], WithForUpdateDefault.read))
       IN /\ IsSyncBase(repo) => f[4] = "unpassed"
          /\ Leaves(o, Args("read", id, EmptySchema, NoFilter,
                            f[1], f[2], "False", f[4]), NoStatement)
          /\ UNCHANGED <<created, deleted>>

\* Service.update(id, object_in): repository.update, to_schema unless None
Update(ids, inputs, flags) ==
    \E id \in ids, object_in \in inputs, f \in flags :
       LET o == IF IsSyncBase(repo)
                THEN sync_base_update(Session(1), repo, id, object_in,
                                      f[1], f[2], f[3])
                ELSE update(Session(1), repo, id, object_in, f[1], f[2],
                            f[3], Passed(f[4], WithForUpdateDefault.update))
       IN /\ IsSyncBase(repo) => f[4] = "unpassed"
          /\ Leaves(o, Args("update", id, object_in, NoFilter,
                            f[1], f[2], f[3], f[4]), NoStatement)
          /\ UNCHANGED <<created, deleted>>

\* Service.delete(id): repository.delete
Delete(ids, flags) ==
    \E id \in ids, f \in flags :
       LET o == IF IsSyncBase(repo)
                THEN sync_base_delete(Session(1), repo, id, f[1], f[2])
                ELSE delete(Session(1), repo, id, f[1], f[2],
                            Passed(f[4], WithForUpdateDefault.delete))
       IN /\ IsSyncBase(repo) => f[4] = "unpassed"
          /\ Leaves(o, Args("delete", id, EmptySchema, NoFilter,
                            f[1], f[2], "False", f[4]), NoStatement)
          /\ deleted' = deleted \cup ({id} \cap TableIds(table))
          /\ UNCHANGED created

\* Service.read_multiple(filters): repository.read_multiple, to_schema each
ReadMultiple(filterSet, flags) ==
    \E filters \in filterSet, f \in flags :
       LET lock == Passed(f[4], WithForUpdateDefault.read_multiple)
           o == read_multiple(Session(1), repo, filters, f[1], f[2], lock)
       IN /\ IsSyncBase(repo) => f[4] = "unpassed"
          /\ Leaves(o, Args("read_multiple", 0, EmptySchema, filters,
                            f[1], f[2], "False", f[4]),
                    _prepare_statement(SelectStatement(repo, filters), lock))
          /\ UNCHANGED <<created, deleted>>

\* repository.count(filters)
Count(filterSet, flags) ==
    \E filters \in filterSet, f \in flags :
       LET o == count(Session(1), repo, filters, f[1])
       IN /\ Leaves(o, Args("count", 0, EmptySchema, filters,
                            f[1], "False", "False", "unpassed"),
                    _prepare_statement(CountStatement(filters), FALSE))
          /\ UNCHANGED <<created, deleted>>

\* the caller is done with the last call's result (or has caught its error);
\* the session keeps what the call left in it
Discard ==
    /\ op # NoCall
    /\ op' = NoCall
    /\ stmt' = NoStatement
    /\ ret' = [kind |-> "none", rows |-> <<>>, n |-> 0]
    /\ out' = [kind |-> "none", items |-> <<>>, n |-> 0]
    /\ log' = <<>>
    /\ err' = "none"
    /\ fault' = NoFault
    /\ UNCHANGED <<table, owned, nextId, repo, service, created, deleted, txn>>

\* ------------------------------------------------------------------ inputs
\* the schema objects over the field names D, each field within its type
SchemasOver(D) ==
    {g \in [D -> Values \cup NullableValues \cup {"t"}] :
        /\ "value" \in D => g["value"] \in Values
        /\ "nullable_value" \in D => g["nullable_value"] \in NullableValues
        /\ "tag" \in D => g["tag"] = "t"}

\* create inputs: `value` is required, `nullable_value` may be left unset,
\* set to None or set to a text
CreateInputs ==
    UNION {SchemasOver(D) : D \in {{"value"}, {"value", "nullable_value"}}}

\* update inputs: any subset of the fields set; `tag` is a field of the input
\* schema that is no attribute of the record
UpdateInputs ==
    UNION {SchemasOver(D) : D \in SUBSET {"value", "nullable_value", "tag"}}

\* per-call overrides <<auto_commit, auto_expunge, auto_refresh>>
AllFlags == Tri \X Tri \X Tri \X {"unpassed"}
DefaultFlags == {<<"None", "None", "None", "unpassed">>}
\* the overrides that change what is written or owned under the default
\* settings: commit or not, expunge or not
StoreFlags ==
    {"None", "True"} \X {"None", "True"} \X {"None"} \X {"unpassed"}
AnyId == Ids \cup {AbsentId}

\* the settings of a repository constructed without arguments, as a service
\* constructs its own: __init__'s parameter defaults
DefaultRepo == Repository__init__(ItemRepository, NoArgs).self

InitWith(repos) ==
    /\ table = <<>>
    /\ owned = {}
    /\ nextId = 1
    /\ repo \in repos
    /\ service = Service__init__(ServiceOver(repo.class), CallerSession).self
    /\ op = NoCall
    /\ stmt = NoStatement
    /\ ret = [kind |-> "none", rows |-> <<>>, n |-> 0]
    /\ out = [kind |-> "none", items |-> <<>>, n |-> 0]
    /\ log = <<>>
    /\ err = "none"
    /\ created = {}
    /\ deleted = {}
    /\ fault = NoFault
    /\ txn = NoTransactions

\* filter objects: the explicitly-set fields and, for the pagination classes,
\* the offset / limit / ordering attributes
Filter(kind, data, offset, limit, order_by, order_direction) ==
    [kind |-> kind, data |-> data, offset |-> offset, limit |-> limit,
     order_by |-> order_by, order_direction |-> order_direction]

\* the function with the pairs of f and of g, g winning
Merge(f, g) ==
    [k \in DOMAIN f \cup DOMAIN g |-> IF k \in DOMAIN g THEN g[k] ELSE f[k]]

Only(name, values) == {[k \in {name} |-> v] : v \in values}
Optional(name, values) == {EmptySchema} \cup Only(name, values)

ValueTexts == {TextValue(v) : v \in Values}
ValueLists == {ListValue(l) : l \in SeqsUpTo(Values, MaxListLen)}
Offsets == {NoneInt} \cup (0 .. MaxOffset)
Limits == {NoneInt} \cup (0 .. MaxLimit)

\* an offset or limit that was passed is an explicitly-set field of the dump
PageData(offset, limit) ==
    Merge(IF offset = NoneInt THEN EmptySchema
          ELSE [k \in {"offset"} |-> NumValue(offset)],
          IF limit = NoneInt THEN EmptySchema
          ELSE [k \in {"limit"} |-> NumValue(limit)])

\* a plain filter schema: value (a text or a list), nullable_value, and tag,
\* a field that is no attribute of the record
PlainFilters ==
    {Filter("plain", Merge(Merge(a, b), c), NoneInt, NoneInt, Null, Null) :
        a \in Optional("value", ValueTexts \cup ValueLists),
        b \in Optional("nullable_value",
                       {TextValue(v) : v \in NullableValues}),
        c \in Optional("tag", {TextValue("t")})}

\* a PaginationFilter subclass with a value field
PaginationFilters ==
    {Filter("pagination", Merge(a, PageData(k, n)), k, n, Null, Null) :
        a \in Optional("value", ValueTexts \cup ValueLists),
        k \in Offsets, n \in Limits}

\* an AuditPaginationFilter subclass with a value field
AuditPaginationFilters ==
    {Filter("audit",
            Merge(Merge(a, PageData(k, n)),
                  [f \in {"order_by", "order_direction"} |->
                      IF f = "order_by" THEN TextValue("created_at")
                      ELSE TextValue(d)]),
            k, n, "created_at", d) :
        a \in Optional("value", ValueTexts),
        k \in Offsets, n \in Limits, d \in {"asc", "desc"}}

Filters ==
    {NoFilter} \cup PlainFilters \cup PaginationFilters
        \cup AuditPaginationFilters

\* ------------------------------------------------------------------ create / read / update / delete through a service
Init == InitWith({DefaultRepo})

Next ==
    \/ Create(CreateInputs, StoreFlags)
    \/ Read(AnyId, StoreFlags)
    \/ Update(AnyId, UpdateInputs, StoreFlags)
    \/ Delete(AnyId, StoreFlags)
    \/ Discard

Spec == Init /\ [][Next]_vars

\* ------------------------------------------------------------------ claims: create / read / update / delete
\* Service.read(id) called on the current state with the given overrides
ServiceRead(id, f) ==
    ServiceOutput(Returned(read(Session(1), repo, id, f[2], f[1], FALSE)))

\* the value a field of the created record must read back as
Carried(input, field) ==
    IF field \in DOMAIN input THEN input[field] ELSE Null

\* C1: round trip. Once Service.create(input) has returned, Service.read of
\* the id it returned gives one output with that id whose fields equal the
\* input's, a field the input did not carry reading back as None.
C1_RoundTrip ==
    (op.name = "create" /\ err = "none") =>
        /\ out.kind = "one"
        /\ \A f \in StoreFlags :
              LET r == ServiceRead(out.items[1].id, f)
              IN /\ r.kind = "one"
                 /\ r.items[1].id = out.items[1].id
                 /\ r.items[1].value = op.input["value"]
                 /\ r.items[1].nullable_value
                       = Carried(op.input, "nullable_value")

C1_Witness ==
    /\ op.name = "create" /\ err = "none"
    /\ DOMAIN op.input = {"value"}
    /\ out.kind = "one" /\ out.items[1].value = "y"
    /\ ServiceRead(out.items[1].id, <<"None", "None", "None">>).kind = "one"
    /\ Len(table) = 2

\* C2: partial update. update(id, input) of an existing record sets the
\* fields the input explicitly set (those the record has) and leaves every
\* other attribute of that record, its key included, and every other record
\* as they were; the record returned is that record with the same id.
C2_Frame ==
    (op'.name = "update" /\ op'.id \in TableIds(table) /\ err' = "none") =>
        LET before == RowOf(table, op'.id)
            after == RowOf(table', op'.id)
        IN /\ after.id = before.id
           /\ after.created_at = before.created_at
           /\ after.value = IF "value" \in DOMAIN op'.input
                            THEN op'.input["value"] ELSE before.value
           /\ after.nullable_value
                 = IF "nullable_value" \in DOMAIN op'.input
                   THEN op'.input["nullable_value"]
                   ELSE before.nullable_value
           /\ \A j \in AnyId \ {op'.id} : RowOf(table', j) = RowOf(table, j)
           /\ Len(table') = Len(table)
           /\ ret'.kind = "one" /\ ret'.rows[1] = after
           /\ out'.kind = "one" /\ out'.items[1].id = op'.id

\* C2: every step of the program is a partial update in the sense above.
C2_PartialUpdate == [][C2_Frame]_vars

C2_Witness ==
    /\ op.name = "update" /\ err = "none" /\ ret.kind = "one"
    /\ DOMAIN op.input = {"nullable_value", "tag"}
    /\ op.input["nullable_value"] = "n"
    /\ ret.rows[1].value = "y" /\ ret.rows[1].nullable_value = "n"
    /\ Len(table) = 2

\* C3: for an id that matches no stored record, read and update return None,
\* delete returns, none of them raises, and the stored records are unchanged.
C3_Absent ==
    (op'.name \in {"read", "update", "delete"} /\ op'.id \notin TableIds(table))
        => /\ err' = "none"
           /\ ret'.kind = "none"
           /\ out'.kind = "none"
           /\ table' = table

\* C3: every read, update and delete of an id without a record returns None,
\* raises nothing and changes no stored record.
C3_AbsentId == [][C3_Absent]_vars

C3_Witness ==
    /\ op.name = "update" /\ op.id \in deleted /\ table # <<>>
    /\ ret.kind = "none" /\ err = "none"

\* C4: read(id) finds a record exactly for the ids create has returned and
\* delete has not been given; delete(id) of an existing record removes that
\* record and leaves every other record readable with the same values.
C4_Live ==
    \A id \in AnyId :
        (ServiceRead(id, <<"None", "None", "None">>).kind = "one")
            <=> id \in created \ deleted

C4_DeleteStep ==
    (op'.name = "delete" /\ op'.id \in TableIds(table)) =>
        /\ op'.id \notin TableIds(table')
        /\ \A j \in AnyId \ {op'.id} : RowOf(table', j) = RowOf(table, j)

\* C4: in every state read(id) finds exactly the ids created and not yet
\* deleted, and every delete of an existing record removes only that record.
C4_Delete == []C4_Live /\ [][C4_DeleteStep]_vars

C4_Witness ==
    /\ op.name = "delete" /\ op.id \in deleted
    /\ Len(table) = 1 /\ table[1].id # op.id
    /\ created = Ids

\* ------------------------------------------------------------------ queries
AuditRepo == Repository__init__(AuditItemRepository, NoArgs).self

QueryInit == InitWith({DefaultRepo, AuditRepo})

QueryNext ==
    \/ Create(CreateInputs, DefaultFlags)
    \/ ReadMultiple(Filters, DefaultFlags)
    \/ Count(Filters, DefaultFlags)
    \/ Discard

SpecQuery == QueryInit /\ [][QueryNext]_vars

\* ------------------------------------------------------------------ claims: queries
\* repository.read_multiple / count called on the current state
ReadMultipleRows(filters) ==
    Returned(read_multiple(Session(1), repo, filters,
                           "None", "None", FALSE)).rows

CountValue(filters) == Returned(count(Session(1), repo, filters, "None")).n

Elements(items) == {items[i] : i \in 1 .. Len(items)}

\* the record satisfies every predicate the filter object stands for
Satisfies(row, filters) ==
    \A f \in (DOMAIN filters.data) \cap {"value", "nullable_value"} :
        IF filters.data[f].isList
        THEN row[f] \in Elements(filters.data[f].items)
        ELSE row[f] = filters.data[f].items[1]

Matching(filters) == {i \in 1 .. Len(table) : Satisfies(table[i], filters)}

HasListOnly(filters) ==
    /\ filters.kind = "plain"
    /\ "value" \in DOMAIN filters.data
    /\ filters.data["value"].isList
    /\ "nullable_value" \notin DOMAIN filters.data

\* C5: a list-valued filter field is set membership. read_multiple with a
\* filter whose `value` holds a list returns exactly the stored records whose
\* value is an element of the list, each once; an empty list matches none.
C5_ListMembership ==
    (op.name = "read_multiple" /\ HasListOnly(op.filters)) =>
        /\ err = "none" /\ ret.kind = "many"
        /\ TableIds(ret.rows)
              = {table[i].id : i \in {j \in 1 .. Len(table) :
                    table[j].value
                       \in Elements(op.filters.data["value"].items)}}
        /\ Cardinality(TableIds(ret.rows)) = Len(ret.rows)
        /\ \A i \in 1 .. Len(ret.rows) :
              ret.rows[i] = RowOf(table, ret.rows[i].id)

C5_Witness ==
    /\ op.name = "read_multiple" /\ HasListOnly(op.filters)
    /\ op.filters.data["value"].items = <<"x">>
    /\ Len(table) = 2 /\ table[1].value = "y" /\ table[2].value = "x"
    /\ Len(ret.rows) = 1 /\ ret.rows[1].id = table[2].id

\* C6 as stated: count(filters) equals the number of records
\* read_multiple(filters) returns, for every accepted filter object.
C6_CountEqualsLength ==
    op.name = "count" => ret.n = Len(ReadMultipleRows(op.filters))

\* the filter object with its offset and limit left unset
Unpaged(filters) == [filters EXCEPT !.offset = NoneInt, !.limit = NoneInt]

\* C6 (amended): count(filters) is the number of records that satisfy the
\* filter's predicates; offset and limit do not enter it.  It equals the
\* length of read_multiple(filters) for an absent or plain filter and, for a
\* pagination-capable filter, of read_multiple with offset and limit unset.
C6_CountMatching ==
    op.name = "count" =>
        /\ err = "none" /\ ret.kind = "scalar"
        /\ ret.n = Cardinality(Matching(op.filters))
        /\ ret.n = Len(ReadMultipleRows(Unpaged(op.filters)))
        /\ ~IsPaginationFilter(op.filters)
              => ret.n = Len(ReadMultipleRows(op.filters))

C6_Witness ==
    /\ op.name = "count" /\ op.filters.kind = "pagination"
    /\ op.filters.limit = 1 /\ op.filters.offset = NoneInt
    /\ "value" \in DOMAIN op.filters.data
    /\ op.filters.data["value"] = ListValue(<<"x">>)
    /\ Len(table) = 2
    /\ ret.n = 2 /\ Len(ReadMultipleRows(op.filters)) = 1

NonIncreasing(rows) ==
    \A i, j \in 1 .. Len(rows) :
        i < j => rows[i].created_at >= rows[j].created_at

NonDecreasing(rows) ==
    \A i, j \in 1 .. Len(rows) :
        i < j => rows[i].created_at <= rows[j].created_at

Repos ==
    {Repository__init__(ItemRepository,
                        InitArgs("unpassed", "unpassed", c, e, r)).self :
        c \in {"True", "False"}, e \in {"True", "False"},
        r \in {"True", "False"}}

PolicyInit == InitWith(Repos)

PolicyNext ==
    \/ Create(Only("value", {"x"}), AllFlags)
    \/ Read(AnyId, AllFlags)
    \/ Update(AnyId, Only("nullable_value", {"n"}), AllFlags)
    \/ Delete(AnyId, AllFlags)
    \/ ReadMultiple({NoFilter}, AllFlags)
    \/ Count({NoFilter}, AllFlags)
    \/ Discard

SpecPolicy == PolicyInit /\ [][PolicyNext]_vars

\* ------------------------------------------------------------------ claims: the policy
\* the commit and flush calls of the last operation, in order
CommitsAndFlushes == SelectSeq(log, LAMBDA c : c.call \in {"commit", "flush"})

Called(name) == \E i \in 1 .. Len(log) : log[i].call = name

CalledOn(name, id) ==
    \E i \in 1 .. Len(log) : log[i].call = name /\ log[i].id = id

\* the number of times the last operation ran the policy: update and delete
\* run it once for their read by key and once more at their end
PolicyRuns == IF op.name \in {"update", "delete"} THEN 2 ELSE 1

\* what a per-call value and a repository-level value resolve to
Effective(perCall, repoLevel) ==
    CASE perCall = "True" -> TRUE
      [] perCall = "False" -> FALSE
      [] perCall = "None" -> repoLevel

\* C9: every run of the policy calls exactly one of commit and flush: commit
\* when auto-commit resolves to true, flush otherwise, whether or not the
\* operation's result is None.  (The read by key inside update and delete
\* passes auto_commit=False and so flushes.)
C9_CommitXorFlush ==
    op.name # "idle" =>
        /\ Len(CommitsAndFlushes) = PolicyRuns
        /\ CommitsAndFlushes[PolicyRuns].call
              = IF Effective(op.auto_commit, repo.auto_commit)
                THEN "commit" ELSE "flush"
        /\ PolicyRuns = 2 => CommitsAndFlushes[1].call = "flush"

C9_Witness ==
    /\ op.name = "update" /\ ret.kind = "none" /\ err = "none"
    /\ op.auto_commit = "None" /\ repo.auto_commit
    /\ table # <<>>
    /\ log = <<Call("get", op.id, TRUE), Call("flush", 0, FALSE),
               Call("commit", 0, FALSE)>>

\* C10: three-valued override. For auto_commit, auto_refresh and
\* auto_expunge alike the effective flag is the per-call value when that is
\* True or False and the repository's value when it is unset, each flag on
\* its own: the operation commits, refreshes its result, expunges its result
\* exactly when the respective flag is effective (refresh and expunge apply
\* to each record of the result).
C10_ThreeValued ==
    op.name # "idle" =>
        /\ Called("commit") <=> Effective(op.auto_commit, repo.auto_commit)
        /\ \A i \in 1 .. Len(ret.rows) :
              /\ CalledOn("refresh", ret.rows[i].id)
                    <=> Effective(op.auto_refresh, repo.auto_refresh)
              /\ CalledOn("expunge", ret.rows[i].id)
                    <=> Effective(op.auto_expunge, repo.auto_expunge)
        /\ Called("refresh") => Effective(op.auto_refresh, repo.auto_refresh)
        /\ Called("expunge") => Effective(op.auto_expunge, repo.auto_expunge)

C10_Witness ==
    /\ op.name = "create" /\ err = "none"
    /\ op.auto_commit = "False" /\ repo.auto_commit
    /\ op.auto_refresh = "None" /\ ~repo.auto_refresh
    /\ op.auto_expunge = "True" /\ ~repo.auto_expunge
    /\ log = <<Call("add", 0, FALSE), Call("flush", 0, FALSE),
               Call("expunge", ret.rows[1].id, FALSE)>>

\* ------------------------------------------------------------------ construction
\* the class-level names a repository subclass may give a value
FlagDefaults ==
    {"default_auto_commit", "default_auto_expunge", "default_auto_refresh"}

\* subclasses that configure themselves through the class-level defaults:
\* each default left to the base class or set to the other value
ConfiguredClasses ==
    {RepositoryClass("BaseSyncRepository", {"model_type"} \cup d, "id",
                     TRUE, TRUE, FALSE, FALSE) :
        d \in SUBSET FlagDefaults}

\* subclasses of each base class with or without a record type and a key
\* name; "uuid" is no attribute of the record type, Item.id is the mapped
\* attribute itself
DeclaredClasses ==
    {RepositoryClass(b, d, i, FALSE, FALSE, FALSE, FALSE) :
        b \in {"BaseSyncRepository", "BaseRepository", "IdRepository"},
        d \in SUBSET {"model_type", "id_attribute"},
        i \in {"id", "uuid", Instrumented["id"]}}

RepositoryClasses == ConfiguredClasses \cup DeclaredClasses

\* the calls of __init__ a caller makes: every flag left out or passed as
\* None, or all flags passed as True or as False together with options
ConstructorArgs ==
    {InitArgs("unpassed", "None", c, e, r) :
        c \in {"unpassed", "None"}, e \in {"unpassed", "None"},
        r \in {"unpassed", "None"}}
    \cup {InitArgs("options", "options", v, v, v) : v \in {"True", "False"}}
    \cup {NoArgs}

ServiceClasses ==
    {ServiceClass(d, c) :
        d \in SUBSET {"repository_type", "output_schema_type"},
        c \in RepositoryClasses}

Constructed(self) == self.assigned = RepositoryAttributes

\* no repository and no service exist yet
SetupInit ==
    /\ table = <<>>
    /\ owned = {}
    /\ nextId = 1
    /\ repo = NewRepository(ItemRepository, NoArgs)
    /\ service = NewService(ServiceOver(ItemRepository))
    /\ op = NoCall
    /\ stmt = NoStatement
    /\ ret = [kind |-> "none", rows |-> <<>>, n |-> 0]
    /\ out = [kind |-> "none", items |-> <<>>, n |-> 0]
    /\ log = <<>>
    /\ err = "none"
    /\ created = {}
    /\ deleted = {}
    /\ fault = NoFault
    /\ txn = NoTransactions

\* the state a constructor leaves: the instance(s) as far as they got, the
\* error raised, the repositories instantiated
Builds(name, args, repository, svc, error, instantiated) ==
    /\ op = NoCall
    /\ ~Constructed(repo)
    /\ repo' = repository
    /\ service' = svc
    /\ op' = Args(name, 0, EmptySchema, NoFilter, args.auto_commit,
                  args.auto_expunge, args.auto_refresh, "unpassed")
    /\ err' = error
    /\ log' = [i \in 1 .. instantiated |->
                  Call("Repository.__init__", 0, FALSE)]
    /\ ret' = [kind |-> IF error = "none" THEN "none" ELSE "raise",
               rows |-> <<>>, n |-> 0]
    /\ out' = [kind |-> IF error = "none" THEN "none" ELSE "raise",
               items |-> <<>>, n |-> 0]
    /\ stmt' = NoStatement
    /\ UNCHANGED <<table, owned, nextId, created, deleted, fault, txn>>

\* repository = SomeRepository(**args)
ConstructRepository(classes, argss) ==
    \E cls \in classes, args \in argss :
       LET b == Repository__init__(cls, args)
       IN Builds("Repository.__init__", args, b.self,
                 NewService(ServiceOver(cls)), b.err, 1)

\* service = SomeService(db_session=session)
ConstructService(classes) ==
    \E cls \in classes :
       LET b == Service__init__(cls, CallerSession)
       IN Builds("Service.__init__", NoArgs, b.repository, b.self, b.err,
                 b.instantiated)

SetupNext ==
    \/ ConstructRepository(ConfiguredClasses, ConstructorArgs)
    \/ ConstructRepository(DeclaredClasses, {NoArgs})
    \/ ConstructService(ServiceClasses)
    \/ Constructed(repo) /\ Create(Only("value", {"x"}), DefaultFlags)
    \/ Constructed(repo) /\ Read(AnyId, DefaultFlags)
    \/ Constructed(repo)
          /\ Update(AnyId, Only("nullable_value", {"n"}), DefaultFlags)
    \/ Constructed(repo) /\ Delete(AnyId, DefaultFlags)
    \/ Constructed(repo) /\ ReadMultiple({NoFilter}, DefaultFlags)
    \/ Constructed(repo) /\ Count({NoFilter}, DefaultFlags)
    \/ Discard

SpecSetup == SetupInit /\ [][SetupNext]_vars

\* ------------------------------------------------------------------ claims: construction
Operations ==
    {"create", "read", "read_multiple", "update", "delete", "count"}

\* C11: a repository whose subclass sets a class-level default and that was
\* constructed without that flag uses the class-level value in an operation
\* called without a per-call override: the settings it holds are the
\* class-level ones, it commits exactly when default_auto_commit is true,
\* and create refreshes / expunges the record exactly when
\* default_auto_refresh / default_auto_expunge is true.
C11_ClassLevelDefaults ==
    (op.name \in Operations /\ err = "none") =>
        /\ (repo.args.auto_commit = "unpassed" /\ op.auto_commit = "None")
              => /\ repo.auto_commit
                       = ClassAttr(repo.class, "default_auto_commit")
                 /\ Called("commit")
                       <=> ClassAttr(repo.class, "default_auto_commit")
        /\ (repo.args.auto_refresh = "unpassed" /\ op.name = "create")
              => /\ repo.auto_refresh
                       = ClassAttr(repo.class, "default_auto_refresh")
                 /\ Called("refresh")
                       <=> ClassAttr(repo.class, "default_auto_refresh")
        /\ (repo.args.auto_expunge = "unpassed" /\ op.name = "create")
              => /\ repo.auto_expunge
                       = ClassAttr(repo.class, "default_auto_expunge")
                 /\ Called("expunge")
                       <=> ClassAttr(repo.class, "default_auto_expunge")

\* ------------------------------------------------------------------ claims: the order of the session calls
\* the positions of the log at which the named calls were made
Positions(names) == {i \in 1 .. Len(log) : log[i].call \in names}

\* the keys of the records the last operation handed to its final run of the
\* policy: the records it returned, for delete the record it deleted
PolicyRecords ==
    IF op.name = "delete"
    THEN {log[i].id : i \in Positions({"delete"})}
    ELSE TableIds(ret.rows)

TimesCalledOn(name, id) ==
    Cardinality({i \in Positions({name}) : log[i].id = id})

\* C12: inside a run of the policy the commit or flush comes before every
\* refresh, every refresh before every expunge; a record handed to the
\* policy is refreshed at most once and expunged at most once, exactly once
\* when the flag is effective and nothing raised, and nothing is refreshed or
\* expunged when the result is None.
C12_PolicyOrder ==
    op.name \in Operations =>
        /\ \A i \in Positions({"commit", "flush"}) :
              \A j \in Positions({"refresh", "expunge"}) : i < j
        /\ \A i \in Positions({"refresh"}) :
              \A j \in Positions({"expunge"}) : i < j
        /\ \A i \in Positions({"refresh", "expunge"}) :
              TimesCalledOn(log[i].call, log[i].id) = 1
        /\ err = "none" =>
              /\ Called("refresh") =>
                    \A id \in PolicyRecords : TimesCalledOn("refresh", id) = 1
              /\ Called("expunge") =>
                    \A id \in PolicyRecords : TimesCalledOn("expunge", id) = 1
              /\ {log[i].id : i \in Positions({"refresh", "expunge"})}
                    \subseteq PolicyRecords
        /\ (ret.kind = "none" /\ ~Called("delete")) =>
              Positions({"refresh", "expunge"}) = {}

C12_Witness ==
    /\ op.name = "update" /\ err = "none" /\ ret.kind = "one"
    /\ Len(table) = 2
    /\ log = <<Call("get", op.id, TRUE), Call("flush", 0, FALSE),
               Call("add", op.id, FALSE), Call("commit", 0, FALSE),
               Call("refresh", op.id, FALSE), Call("expunge", op.id, FALSE)>>

\* C13: create(record) on a repository with default settings and without
\* per-call overrides calls add(record), flush, refresh(record) in this
\* order and nothing else (no commit, no expunge); it returns the record it
\* was given, now carrying its key, still attached to the session.
C13_CreateCalls ==
    (op.name = "create" /\ repo = DefaultRepo
        /\ op.auto_commit = "None" /\ op.auto_expunge = "None"
        /\ op.auto_refresh = "None") =>
        /\ err = "none"
        /\ ret.kind = "one"
        /\ log = <<Call("add", 0, FALSE), Call("flush", 0, FALSE),
                   Call("refresh", ret.rows[1].id, FALSE)>>
        /\ ret.rows[1].id = nextId - 1
        /\ ret.rows[1].value = to_model(op.input).value
        /\ ret.rows[1].nullable_value = to_model(op.input).nullable_value
        /\ ret.rows[1].id \in owned
        /\ ret.rows[1] = RowOf(table, ret.rows[1].id)

C13_Witness ==
    /\ op.name = "create" /\ repo = DefaultRepo
    /\ op.auto_commit = "None" /\ op.auto_expunge = "None"
    /\ op.auto_refresh = "None"
    /\ log = <<Call("add", 0, FALSE), Call("flush", 0, FALSE),
               Call("refresh", 2, FALSE)>>
    /\ owned = {1, 2} /\ Len(table) = 2

\* ------------------------------------------------------------------ the two implementations, with and without a lock
\* class ItemIdRepository(IdSyncRepository[ItemModel]): model_type = ItemModel
ItemIdRepository ==
    RepositoryClass("IdRepository", {"model_type"}, "id",
                    FALSE, FALSE, FALSE, FALSE)

VariantRepos ==
    {DefaultRepo, Repository__init__(ItemIdRepository, NoArgs).self}

\* auto_commit left unset or passed as True, with_for_update left out or
\* passed
VariantFlags ==
    {<<c, "None", "None", l>> :
        c \in {"None", "True"}, l \in {"unpassed", "True", "False"}}

VariantInit == InitWith(VariantRepos)

VariantNext ==
    \/ Create(Only("value", {"x"}), DefaultFlags)
    \/ Read(AnyId, VariantFlags)
    \/ Update(AnyId, Only("nullable_value", {"n"}), VariantFlags)
    \/ Delete(AnyId, VariantFlags)
    \/ ReadMultiple({NoFilter}, VariantFlags)
    \/ Discard

SpecVariants == VariantInit /\ [][VariantNext]_vars

\* ------------------------------------------------------------------ claims: absent ids and locking
\* C14: update and delete of an id without a record still end with the
\* commit-or-flush of the caller's settings: their last such call is a commit
\* when auto_commit resolves to true and a flush otherwise; update returns
\* None.
C14_AbsentPolicy ==
    (op.name \in {"update", "delete"} /\ ret.kind = "none"
        /\ ~Called("delete")) =>
        /\ err = "none"
        /\ CommitsAndFlushes # <<>>
        /\ CommitsAndFlushes[Len(CommitsAndFlushes)].call
              = IF Effective(op.auto_commit, repo.auto_commit)
                THEN "commit" ELSE "flush"

\* C15: update and delete ask for the row lock on their read by key unless
\* the caller passes with_for_update, read and read_multiple do not, and the
\* value the caller passes is the one db_session.get / the executed
\* statement is given.
C15_Locking ==
    op.name \in {"read", "read_multiple", "update", "delete"} =>
        LET expected ==
                IF op.with_for_update = "unpassed"
                THEN op.name \in {"update", "delete"}
                ELSE op.with_for_update = "True"
        IN /\ Positions({"get", "execute"}) # {}
           /\ \A i \in Positions({"get", "execute"}) : log[i].lock = expected

\* ------------------------------------------------------------------ claims: setup errors
\* the key name a class ends up with: its own, else the "id" that
\* BaseSyncRepository and IdRepository define
InheritsId(cls) == cls.base \in {"BaseSyncRepository", "IdRepository"}

KeyName(cls) ==
    IF "id_attribute" \in cls.defines THEN cls.id_attribute ELSE "id"

KeyMissing(name) == IsStr(name) /\ name \notin DOMAIN Instrumented

KeyAttribute(name) == IF IsStr(name) THEN Instrumented[name] ELSE name

\* C16 as stated: construction raises the setup error with no attribute of
\* the instance set when the subclass defines no model_type or no
\* id_attribute or names a key the record type does not have; otherwise it
\* succeeds and id_field is the record type's attribute of that name.
C16_SetupError ==
    op.name = "Repository.__init__" =>
        LET cls == repo.class
        IN IF \/ "model_type" \notin cls.defines
              \/ "id_attribute" \notin cls.defines
              \/ KeyMissing(cls.id_attribute)
           THEN /\ err = "MixemyRepositorySetupError"
                /\ repo.assigned = {}
           ELSE /\ err = "none"
                /\ Constructed(repo)
                /\ repo.id_field = KeyAttribute(cls.id_attribute)

\* C16, amended: construction raises the setup error with no attribute set
\* when model_type is defined nowhere or id_attribute is defined neither by
\* the subclass nor by its base class; it raises the same error with only
\* the record type (model) set when the key name is no attribute of the
\* record type; otherwise it succeeds, every attribute is set and id_field
\* is the record type's attribute of the key name (the attribute itself when
\* id_attribute is one).
C16_SetupErrorAmended ==
    op.name = "Repository.__init__" =>
        LET cls == repo.class
            undefined == \/ "model_type" \notin cls.defines
                         \/ ("id_attribute" \notin cls.defines
                                /\ ~InheritsId(cls))
        IN IF undefined
           THEN /\ err = "MixemyRepositorySetupError"
                /\ repo.assigned = {}
           ELSE IF KeyMissing(KeyName(cls))
           THEN /\ err = "MixemyRepositorySetupError"
                /\ repo.assigned = {"model"}
                /\ repo.model = cls.model_type
           ELSE /\ err = "none"
                /\ Constructed(repo)
                /\ repo.model = cls.model_type
                /\ repo.id_field = KeyAttribute(KeyName(cls))

\* a subclass that names a key the record type lacks was constructed, and one
\* of BaseRepository without a key name
C16_Witness ==
    /\ op.name = "Repository.__init__"
    /\ err = "MixemyRepositorySetupError"
    /\ "model_type" \in repo.class.defines
    /\ \/ /\ "id_attribute" \in repo.class.defines
          /\ repo.class.id_attribute = "uuid"
          /\ repo.assigned = {"model"}
       \/ /\ "id_attribute" \notin repo.class.defines
          /\ repo.class.base = "BaseRepository"
          /\ repo.assigned = {}

\* the repositories the last constructor instantiated
Instantiated == Cardinality(Positions({"Repository.__init__"}))

\* C17: constructing a service whose subclass defines no repository_type or
\* no output_schema_type raises the service setup error and instantiates no
\* repository; when both are defined exactly one repository is instantiated,
\* and the service's record type is that repository's record type (when the
\* repository's own construction raises, that error is the one raised and
\* the service has no record type).
C17_ServiceSetup ==
    op.name = "Service.__init__" =>
        LET cls == service.class
        IN IF \/ "repository_type" \notin cls.defines
              \/ "output_schema_type" \notin cls.defines
           THEN /\ err = "MixemyServiceSetupError"
                /\ Instantiated = 0
                /\ ~Constructed(repo)
                /\ "model" \notin service.assigned
           ELSE /\ Instantiated = 1
                /\ repo.class = cls.repository_type
                /\ err \in {"none", "MixemyRepositorySetupError"}
                /\ err = "none" <=> Constructed(repo)
                /\ err = "none" =>
                      /\ service.model = repo.model
                      /\ service.model = cls.repository_type.model_type
                      /\ service.db_session = CallerSession
                /\ err # "none" => "model" \notin service.assigned

\* a service was constructed over a repository class that constructs
C17_Witness ==
    /\ op.name = "Service.__init__"
    /\ err = "none"
    /\ Instantiated = 1
    /\ service.model = "Item"
    /\ Constructed(repo)

\* ------------------------------------------------------------------ claims: the binding
\* C18: once constructed, a repository is left as it is by every create,
\* read, read_multiple, update, delete and count - its record type, key
\* attribute, auto_commit, auto_refresh, auto_expunge, loader and execution
\* options stay those its construction gave it - and a call that passes no
\* override commits, refreshes and expunges by those settings whatever the
\* calls before it passed.
C18_Binding ==
    [][Constructed(repo) =>
          /\ repo' = repo
          /\ repo' = Repository__init__(repo.class, repo.args).self
          /\ (op'.name \in Operations /\ op'.auto_commit = "None")
                => (Called("commit")' <=> repo.auto_commit)
          /\ (op'.name = "create" /\ op'.auto_refresh = "None")
                => (Called("refresh")' <=> repo.auto_refresh)
          /\ (op'.name = "create" /\ op'.auto_expunge = "None")
                => (Called("expunge")' <=> repo.auto_expunge)]_vars

\* a call without overrides on a repository that commits by itself, made
\* after a record was created
C18_Witness ==
    /\ Constructed(repo) /\ repo.auto_commit /\ ~repo.auto_refresh
    /\ op.name = "read" /\ op.auto_commit = "None" /\ op.auto_expunge = "None"
    /\ ret.kind = "one"
    /\ Called("commit")

\* ------------------------------------------------------------------ the engine fails, the caller holds either session
\* what the engine may raise: a constraint violation, a lost connection
EngineErrors == {"IntegrityError", "OperationalError"}

Faults == {[at |-> k, error |-> e] : k \in 1 .. MaxCalls, e \in EngineErrors}

\* the calls the layer makes on a session
SessionCalls ==
    {"add", "get", "execute", "delete", "commit", "flush", "refresh",
     "expunge"}

\* a service constructed over either session
EngineInit ==
    /\ table = <<>>
    /\ owned = {}
    /\ nextId = 1
    /\ repo = DefaultRepo
    /\ \E h \in Sessions :
          service = Service__init__(ServiceOver(repo.class), h).self
    /\ op = NoCall
    /\ stmt = NoStatement
    /\ ret = [kind |-> "none", rows |-> <<>>, n |-> 0]
    /\ out = [kind |-> "none", items |-> <<>>, n |-> 0]
    /\ log = <<>>
    /\ err = "none"
    /\ created = {}
    /\ deleted = {}
    /\ fault = NoFault
    /\ txn = NoTransactions

\* the engine is about to fail one call of the operation that comes next
EngineFails ==
    /\ op = NoCall
    /\ fault = NoFault
    /\ fault' \in Faults
    /\ UNCHANGED <<table, owned, nextId, repo, service, op, stmt, ret, out, log, err, created, deleted, txn>>

EngineNext ==
    \/ EngineFails
    \/ Create(Only("value", {"x"}), StoreFlags)
    \/ Read(AnyId, StoreFlags)
    \/ Update(AnyId, Only("nullable_value", {"n"}), StoreFlags)
    \/ Delete(AnyId, StoreFlags)
    \/ ReadMultiple({NoFilter}, StoreFlags)
    \/ Count({NoFilter}, StoreFlags)
    \/ Discard

SpecEngine == EngineInit /\ [][EngineNext]_vars

\* ------------------------------------------------------------------ claims: errors and the session
\* C19: when a session call of an operation raises, that error is the one
\* the caller gets, the failing call is the last call the operation makes
\* (it is not made again and no commit, flush, refresh or expunge follows),
\* neither the repository nor the service returns anything, and no call
\* other than add, get, execute, delete, commit, flush, refresh and expunge
\* (no rollback) is made; when the failing call is not reached the engine's
\* error is not raised.
C19_ErrorsPropagate ==
    (op.name \in Operations /\ fault # NoFault) =>
        /\ \A i \in 1 .. Len(log) : log[i].call \in SessionCalls
        /\ Len(log) >= fault.at =>
              /\ err = fault.error
              /\ Len(log) = fault.at
              /\ ret.kind = "raise"
              /\ out.kind = "raise"
        /\ Len(log) < fault.at => err \notin EngineErrors

\* create's commit raised a constraint violation: add and commit were called,
\* nothing after them, nothing was stored
C19_Witness ==
    /\ op.name = "create" /\ op.auto_commit = "True"
    /\ fault = [at |-> 2, error |-> "IntegrityError"]
    /\ err = "IntegrityError"
    /\ [i \in 1 .. Len(log) |-> log[i].call] = <<"add", "commit">>
    /\ out.kind = "raise"
    /\ table = <<>>

\* C20: every session call of every operation is made on the session the
\* service was constructed with, which no operation replaces; the calls are
\* add, get, execute, delete, commit, flush, refresh and expunge only - no
\* session is created or closed.
C20_SessionOwnership ==
    [][op'.name \in Operations =>
          /\ service'.db_session = service.db_session
          /\ \A i \in 1 .. Len(log') :
                /\ log'[i].session = service.db_session
                /\ log'[i].call \in SessionCalls]_vars

\* an update on the second session: its read, its writes and its refresh
\* were made on that session
C20_Witness ==
    /\ op.name = "update" /\ err = "none" /\ ret.kind = "one"
    /\ service.db_session = 2
    /\ Len(log) >= 4
    /\ \A i \in 1 .. Len(log) : log[i].session = 2

\* ------------------------------------------------------------------ claims: unknown filter fields
\* the filter object with the named fields left unset
Without(filters, names) ==
    [filters EXCEPT !.data = [f \in (DOMAIN @) \ names |-> @[f]]]

\* the fields of a filter object that are no attribute of the record type
UnknownFields(filters) == (DOMAIN filters.data) \ ModelAttributes

\* C21: a filter field that is no attribute of the record type adds no
\* predicate: the statement read_multiple or count executes has one predicate
\* per set field that is an attribute, none on offset or limit, and the
\* result is the one the same call returns for the filter without its
\* unknown fields.
C21_UnknownIgnored ==
    op.name \in {"read_multiple", "count"} =>
        /\ err = "none"
        /\ Len(stmt.wheres)
              = Cardinality((DOMAIN op.filters.data) \cap ModelAttributes)
        /\ \A i \in 1 .. Len(stmt.wheres) :
              /\ stmt.wheres[i].attr \in (DOMAIN op.filters.data)
                                            \cap ModelAttributes
              /\ stmt.wheres[i].attr \notin PaginationFields
        /\ op.name = "read_multiple" =>
              /\ ret.rows = ReadMultipleRows(
                               Without(op.filters, UnknownFields(op.filters)))
              /\ ret.rows = ReadMultipleRows(Without(op.filters, {"tag"}))
        /\ op.name = "count" =>
              /\ ret.n = CountValue(
                            Without(op.filters, UnknownFields(op.filters)))
              /\ ret.n = CountValue(Without(op.filters, PaginationFields))

\* a filter with `tag` set, which the record type does not have, and a value
\* that one of two stored records matches
C21_Witness ==
    /\ op.name = "read_multiple" /\ op.filters.kind = "plain"
    /\ DOMAIN op.filters.data = {"value", "tag"}
    /\ op.filters.data["value"] = TextValue("x")
    /\ Len(table) = 2
    /\ Len(ret.rows) = 1 /\ ret.rows[1].value = "x"
    /\ Len(stmt.wheres) = 1

\* ------------------------------------------------------------------ claims: the service
\* C22: the service returns one output schema per record the repository
\* returned, in the repository's order, each the conversion of its record;
\* read and update return None exactly when the repository returned None and
\* one schema otherwise, read_multiple always a list.
C22_PassThrough ==
    (op.name \in {"read", "update", "read_multiple"} /\ err = "none") =>
        /\ Len(out.items) = Len(ret.rows)
        /\ \A i \in 1 .. Len(ret.rows) :
              /\ out.items[i].id = ret.rows[i].id
              /\ out.items[i].value = ret.rows[i].value
              /\ out.items[i].nullable_value = ret.rows[i].nullable_value
              /\ DOMAIN out.items[i] = {"id", "value", "nullable_value"}
        /\ op.name = "read_multiple" =>
              /\ out.kind = "many" /\ ret.kind = "many"
              /\ Len(out.items) = Len(table)
        /\ op.name \in {"read", "update"} =>
              /\ out.kind = "none" <=> ret.kind = "none"
              /\ out.kind = "none" <=> op.id \notin TableIds(table)
              /\ out.kind # "none" =>
                    /\ out.kind = "one" /\ Len(out.items) = 1
                    /\ out.items[1].id = op.id

\* read_multiple over two stored records, the second of them updated
C22_Witness ==
    /\ op.name = "read_multiple" /\ err = "none"
    /\ Len(ret.rows) = 2 /\ Len(out.items) = 2
    /\ out.items[1].id = 1 /\ out.items[2].id = 2
    /\ out.items[1].nullable_value = Null
    /\ out.items[2].nullable_value = "n"

\* ------------------------------------------------------------------ claims: the asynchronous repository
\* the asynchronous operation called with the arguments of a synchronous
\* call, on the session as the synchronous call found it
AsyncOutcome(args, now) ==
    CASE args.name = "create" ->
            async_create(Session(now), repo, to_model(args.input),
                         args.auto_commit, args.auto_expunge,
                         args.auto_refresh)
      [] args.name = "read" ->
            async_read(Session(1), repo, args.id, args.auto_expunge,
                       args.auto_commit,
                       Passed(args.with_for_update, WithForUpdateDefault.read))
      [] args.name = "read_multiple" ->
            async_read_multiple(Session(1), repo, args.filters,
                                args.auto_commit, args.auto_expunge,
                                Passed(args.with_for_update,
                                       WithForUpdateDefault.read_multiple))
      [] args.name = "update" ->
            async_update(Session(1), repo, args.id, args.input,
                         args.auto_commit, args.auto_expunge,
                         args.auto_refresh,
                         Passed(args.with_for_update,
                                WithForUpdateDefault.update))
      [] args.name = "delete" ->
            async_delete(Session(1), repo, args.id, args.auto_commit,
                         args.auto_expunge,
                         Passed(args.with_for_update,
                                WithForUpdateDefault.delete))
      [] args.name = "count" ->
            async_count(Session(1), repo, args.filters, args.auto_commit)

\* the session calls that are round trips to the engine
RoundTrips == {"get", "execute", "delete", "commit", "flush", "refresh"}

\* the asynchronous outcome is the one the synchronous call left: the same
\* calls in the same order with the same arguments, the same error, the same
\* rows, the same instances in the session, the same value returned; it
\* suspended once per round trip
SameOutcome(a, calls, error, rows, instances, next, returned) ==
    /\ a.s.log = calls
    /\ a.s.err = error
    /\ a.s.table = rows
    /\ a.s.owned = instances
    /\ a.s.nextId = next
    /\ Returned(a) = returned
    /\ a.s.awaits
          = Cardinality({i \in 1 .. Len(calls) : calls[i].call \in RoundTrips})

\* C23: every step a synchronous operation takes is the step the
\* asynchronous operation takes from the same store and session with the
\* same arguments: the same session calls in the same order, the same
\* result, the same rows afterwards; the asynchronous one suspends at every
\* round trip (get, execute, delete, commit, flush, refresh) and nowhere
\* else.
C23_SyncAsync ==
    [][op'.name \in Operations =>
          \E now \in Times :
             SameOutcome(AsyncOutcome(op', now), log', err', table', owned',
                         nextId', ret')]_vars

\* an update of a stored record that commits, refreshes and expunges: six
\* session calls, four of them round trips
C23_Witness ==
    /\ op.name = "update" /\ err = "none" /\ ret.kind = "one"
    /\ Effective(op.auto_commit, repo.auto_commit)
    /\ Effective(op.auto_refresh, repo.auto_refresh)
    /\ Effective(op.auto_expunge, repo.auto_expunge)
    /\ [i \in 1 .. Len(log) |-> log[i].call]
          = <<"get", "flush", "add", "commit", "refresh", "expunge">>

\* ------------------------------------------------------------------ recursive conversion
\* BaseSyncService._to_model(schema): to_model with the service's
\* recursive_model_conversion, the per-call argument being None
Service_to_model(self, schema) ==
    to_model_recursive(schema, self.recursive_model_conversion)

\* a nested input schema: a list of sub-objects and one singular sub-object
SubItemInputs == {[value |-> v] : v \in Values}
NestedInputs ==
    {[sub_items |-> l, singular_sub_item |-> x] :
        l \in SeqsUpTo(SubItemInputs, MaxListLen), x \in SubItemInputs}

\* Service.create(object_in) of a nested input: _to_model, the record type's
\* constructor, repository.create, to_schema
CreateNested(inputs, flags) ==
    /\ nextId <= MaxRecords
    /\ \E object_in \in inputs, f \in flags, now \in ClockNow :
          LET db_object == Service_to_model(service, object_in)
              s == Session(now)
              o == IF Constructs(db_object)
                   THEN create(s, repo, db_object, f[1], f[2], f[3])
                   ELSE Outcome([s EXCEPT !.err = "AttributeError"],
                                NoneResult)
          IN /\ Leaves(o, Args("create", 0, object_in, NoFilter,
                               f[1], f[2], f[3], "unpassed"), NoStatement)
             /\ created' = created \cup TableIds(Returned(o).rows)
             /\ UNCHANGED deleted

NestedInit ==
    /\ table = <<>>
    /\ owned = {}
    /\ nextId = 1
    /\ repo = DefaultRepo
    /\ service \in {Service__init__(c, CallerSession).self :
                       c \in {ServiceOver(ItemRepository),
                              RecursiveItemService(ItemRepository)}}
    /\ op = NoCall
    /\ stmt = NoStatement
    /\ ret = [kind |-> "none", rows |-> <<>>, n |-> 0]
    /\ out = [kind |-> "none", items |-> <<>>, n |-> 0]
    /\ log = <<>>
    /\ err = "none"
    /\ created = {}
    /\ deleted = {}
    /\ fault = NoFault
    /\ txn = NoTransactions

NestedNext ==
    \/ CreateNested(NestedInputs, StoreFlags)
    \/ Read(AnyId, StoreFlags)
    \/ Delete(Ids, DefaultFlags)
    \/ Discard

SpecNested == NestedInit /\ [][NestedNext]_vars

CommitRepos ==
    {Repository__init__(cls, InitArgs("unpassed", "unpassed",
                                      c, e, "False")).self :
        cls \in {ItemRepository, ItemIdRepository},
        c \in {"True", "False"}, e \in {"True", "False"}}

CommitInit == InitWith(CommitRepos)

CommitNext ==
    \/ Create(Only("value", {"x"}), AllFlags)
    \/ Update(AnyId, Only("nullable_value", {"n"}), AllFlags)
    \/ Delete(AnyId, AllFlags)
    \/ Discard

SpecCommits == CommitInit /\ [][CommitNext]_vars

\* C25: one commit per call. update and delete begin with the read by key,
\* which flushes and neither commits nor expunges whatever the caller passed
\* and whatever the repository's settings are; create, update and delete
\* commit exactly once, after the add / delete of the record, when
\* auto-commit resolves to true, and never when it resolves to false.
C25_OneCommit ==
    /\ op.name \in {"update", "delete"} =>
          /\ Len(log) >= 2
          /\ log[1].call = "get"
          /\ log[2].call = "flush"
          /\ Len(log) >= 3 => log[3].call # "expunge"
    /\ op.name \in {"create", "update", "delete"} =>
          IF Effective(op.auto_commit, repo.auto_commit)
          THEN /\ Cardinality(Positions({"commit"})) = 1
               /\ \A i \in Positions({"add", "delete"}),
                     j \in Positions({"commit"}) : i < j
          ELSE Positions({"commit"}) = {}

\* the same of the repository of repositories/_sync.py alone
C25_OneCommitSync == IsSyncBase(repo) \/ C25_OneCommit

\* ------------------------------------------------------------------ claims: attached instances
\* C26: expunge and refresh are only called on an instance that is attached
\* to the session at that moment: whatever auto_commit, auto_refresh and
\* auto_expunge resolve to, no operation has the session refuse an expunge
\* or a refresh because the instance has been removed or detached.
C26_AttachedOnly ==
    \A i \in Positions({"expunge", "refresh"}) :
        ~(i = Len(log) /\ err = "InvalidRequestError")

\* ------------------------------------------------------------------ claims: reads
\* C27: read operations never refresh and never write. read, read_multiple
\* and count call neither refresh nor add nor delete on the session, whatever
\* the per-call arguments and the repository's settings (auto_refresh true
\* included), and leave the stored records and their values as they were;
\* count does not expunge either.
C27_ReadsOnlyRead ==
    [][op'.name \in {"read", "read_multiple", "count"} =>
          /\ table' = table
          /\ nextId' = nextId
          /\ \A i \in 1 .. Len(log') :
                /\ log'[i].call \notin {"refresh", "add", "delete"}
                /\ op'.name = "count" => log'[i].call # "expunge"]_vars

C27_Witness ==
    /\ op.name = "read_multiple" /\ err = "none"
    /\ repo.auto_refresh /\ repo.auto_expunge
    /\ op.auto_commit = "True"
    /\ Len(ret.rows) = 2
    /\ Called("commit") /\ Called("expunge")

\* ------------------------------------------------------------------ claims: unset and null
\* C28: unset versus null in update. In an update of an existing record a
\* field the input did not set keeps the record's value, a field the input
\* set to None is overwritten with None like any other set value, and an
\* input field that is no attribute of the record is skipped: the call does
\* not raise and the other fields come out as they would without it.
C28_Fields ==
    (op'.name = "update" /\ op'.id \in TableIds(table)) =>
        LET before == RowOf(table, op'.id)
            after == RowOf(table', op'.id)
            set == DOMAIN op'.input
        IN /\ err' = "none"
           /\ \A f \in {"value", "nullable_value"} \ set :
                 after[f] = before[f]
           /\ \A f \in {"value", "nullable_value"} \cap set :
                 /\ op'.input[f] = Null => after[f] = Null
                 /\ op'.input[f] # Null => after[f] = op'.input[f]
           /\ "tag" \in set =>
                 after = _update_db_object(
                             before, [f \in set \ {"tag"} |-> op'.input[f]])

\* C28: every update of an existing record treats unset fields, fields set
\* to None and fields the record does not have in the sense above.
C28_UnsetVersusNull == [][C28_Fields]_vars

C28_Witness ==
    /\ op.name = "update" /\ err = "none" /\ ret.kind = "one"
    /\ DOMAIN op.input = {"nullable_value", "tag"}
    /\ op.input["nullable_value"] = Null
    /\ ret.rows[1].nullable_value = Null /\ ret.rows[1].value = "x"
    /\ RowOf(table, op.id).nullable_value = Null

\* ------------------------------------------------------------------ claims: filter composition
\* the statement with its predicates in the opposite order
Reordered(statement) ==
    [statement EXCEPT !.wheres =
        [i \in 1 .. Len(@) |-> @[Len(@) + 1 - i]]]

\* the call pages nothing away
Unpaginated(filters) == filters.offset = NoneInt /\ filters.limit = NoneInt

\* C29: filter composition. read_multiple and count return exactly the
\* records that satisfy all the predicates of the set fields the record type
\* has, whatever the order of the fields; a field that was not set adds no
\* predicate, and a filter object with no set field, like an absent filter,
\* returns every record.
C29_Conjunction ==
    op.name \in {"read_multiple", "count"} =>
        LET known == (DOMAIN op.filters.data) \cap ModelAttributes
            matching == {table[i].id : i \in Matching(op.filters)}
        IN /\ err = "none"
           /\ \A i \in 1 .. Len(stmt.wheres) : stmt.wheres[i].attr \in known
           /\ op.name = "count" =>
                 /\ ret.n = Cardinality(matching)
                 /\ ret.n = ResultCount(table, Reordered(stmt))
                 /\ known = {} => ret.n = Len(table)
           /\ (op.name = "read_multiple" /\ Unpaginated(op.filters)) =>
                 /\ TableIds(ret.rows) = matching
                 /\ Len(ret.rows) = Cardinality(matching)
                 /\ ret.rows = ResultRows(table, Reordered(stmt))
                 /\ known = {} => TableIds(ret.rows) = TableIds(table)

\* two set fields, and a stored record that satisfies one predicate only
C29_Witness ==
    /\ op.name = "read_multiple" /\ op.filters.kind = "plain"
    /\ DOMAIN op.filters.data = {"value", "nullable_value"}
    /\ op.filters.data["value"] = TextValue("x")
    /\ op.filters.data["nullable_value"] = TextValue("n")
    /\ Len(stmt.wheres) = 2
    /\ Len(table) = 2
    /\ table[1].value = "x" /\ table[1].nullable_value = Null
    /\ table[2].value = "x" /\ table[2].nullable_value = "n"
    /\ Len(ret.rows) = 1 /\ ret.rows[1].id = table[2].id

\* ------------------------------------------------------------------ two sessions, one record
\* Two callers, each with a session of its own, call update on the same
\* record.  `table` holds the committed rows.  A transaction sees the
\* committed rows and its own writes; its SELECT ... FOR UPDATE and its
\* UPDATE take the row lock, which it holds until it commits.

\* the record both calls are about
SharedId == 1

\* an update call on a session of its own: how far it has got, its
\* arguments, the instance as db_session.get loaded it and as it is now, the
\* columns its UPDATE wrote, and whether its transaction holds the row lock
UpdateCall(object_in, auto_commit, with_for_update) ==
    [pc |-> "called", input |-> object_in, auto_commit |-> auto_commit,
     with_for_update |-> with_for_update, loaded |-> NoRow,
     instance |-> NoRow, written |-> EmptySchema, locked |-> FALSE,
     waited |-> FALSE]

\* no other transaction holds the row lock
RowLockFree(h) == \A g \in Sessions \ {h} : ~txn[g].locked

\* the row as the transaction of session h reads it
View(h) ==
    LET row == RowOf(table, SharedId)
    IN [f \in DOMAIN row |->
           IF f \in DOMAIN txn[h].written THEN txn[h].written[f] ELSE row[f]]

\* the attributes with a net change since the instance was loaded: the
\* columns the flush puts in its UPDATE
NetChanges(loaded, instance) ==
    {f \in DOMAIN instance : instance[f] # loaded[f]}

\* with_for_update as update passes it on to _get
UpdateLocks(h) == Passed(txn[h].with_for_update, WithForUpdateDefault.update)

\* auto_commit as the policy resolves it
UpdateCommits(h) == Resolve(txn[h].auto_commit, repo.auto_commit)

\* update, first step: _get with auto_expunge=False, auto_commit=False, that
\* is db_session.get(model, id, with_for_update=with_for_update) and a flush
\* with nothing pending
UpdateGet(h) ==
    /\ txn[h].pc = "called"
    /\ UpdateLocks(h) => RowLockFree(h)
    /\ txn' = [txn EXCEPT ![h].pc = "got", ![h].loaded = View(h),
                          ![h].instance = View(h),
                          ![h].locked = UpdateLocks(h)]
    /\ UNCHANGED <<table, owned, nextId, repo, service, op, stmt, ret, out,
                   log, err, created, deleted, fault>>

\* the statement of the call waits for the row lock of the other transaction
UpdateWaits(h) ==
    /\ ~RowLockFree(h)
    /\ ~txn[h].waited
    /\ \/ txn[h].pc = "called" /\ UpdateLocks(h)
       \/ /\ txn[h].pc = "set"
          /\ NetChanges(txn[h].loaded, txn[h].instance) # {}
    /\ txn' = [txn EXCEPT ![h].waited = TRUE]
    /\ UNCHANGED <<table, owned, nextId, repo, service, op, stmt, ret, out,
                   log, err, created, deleted, fault>>

\* update_db_object, first half: _update_db_object assigns the dumped fields
UpdateSet(h) ==
    /\ txn[h].pc = "got"
    /\ txn' = [txn EXCEPT ![h].pc = "set",
                          ![h].instance = _update_db_object(@, txn[h].input)]
    /\ UNCHANGED <<table, owned, nextId, repo, service, op, stmt, ret, out,
                   log, err, created, deleted, fault>>

\* _add: db_session.add and the flush of the policy (the one commit begins
\* with when auto_commit resolves to true): the UPDATE of the changed columns
UpdateFlush(h) ==
    /\ txn[h].pc = "set"
    /\ LET cols == NetChanges(txn[h].loaded, txn[h].instance)
       IN /\ cols # {} => RowLockFree(h)
          /\ txn' = [txn EXCEPT
                        ![h].pc = "flushed",
                        ![h].written = [f \in cols |-> txn[h].instance[f]],
                        ![h].locked = @ \/ cols # {}]
    /\ UNCHANGED <<table, owned, nextId, repo, service, op, stmt, ret, out,
                   log, err, created, deleted, fault>>

\* COMMIT: the transaction's writes become the committed row and its lock is
\* released
Commit(h, pc) ==
    /\ table' = [i \in 1 .. Len(table) |->
                    IF table[i].id = SharedId THEN View(h) ELSE table[i]]
    /\ txn' = [txn EXCEPT ![h].pc = pc, ![h].written = EmptySchema,
                          ![h].locked = FALSE]
    /\ UNCHANGED <<owned, nextId, repo, service, op, stmt, ret, out,
                   log, err, created, deleted, fault>>

\* the policy's db_session.commit() when auto_commit resolves to true
UpdateCommit(h) ==
    /\ txn[h].pc = "flushed"
    /\ UpdateCommits(h)
    /\ Commit(h, "committed")

\* the policy's db_session.refresh(instance), after which update returns
UpdateRefresh(h) ==
    /\ txn[h].pc = IF UpdateCommits(h) THEN "committed" ELSE "flushed"
    /\ txn' = [txn EXCEPT ![h].pc = "returned", ![h].instance = View(h)]
    /\ UNCHANGED <<table, owned, nextId, repo, service, op, stmt, ret, out,
                   log, err, created, deleted, fault>>

\* the caller commits the session the call left uncommitted
CallerCommit(h) ==
    /\ txn[h].pc = "returned"
    /\ ~UpdateCommits(h)
    /\ Commit(h, "done")

\* the call has returned and its transaction is committed
Finished(h) ==
    \/ txn[h].pc = "done"
    \/ txn[h].pc = "returned" /\ UpdateCommits(h)

\* update inputs over the two columns
LockInputs ==
    UNION {SchemasOver(D) : D \in (SUBSET {"value", "nullable_value"}) \ {{}}}

LockInit ==
    /\ table = <<[id |-> SharedId, value |-> "x", nullable_value |-> Null,
                  created_at |-> 1]>>
    /\ owned = {}
    /\ nextId = SharedId + 1
    /\ repo = DefaultRepo
    /\ service = Service__init__(ServiceOver(repo.class), CallerSession).self
    /\ op = NoCall
    /\ stmt = NoStatement
    /\ ret = [kind |-> "none", rows |-> <<>>, n |-> 0]
    /\ out = [kind |-> "none", items |-> <<>>, n |-> 0]
    /\ log = <<>>
    /\ err = "none"
    /\ created = {SharedId}
    /\ deleted = {}
    /\ fault = NoFault
    /\ txn \in [Sessions -> {UpdateCall(i, c, l) :
                                i \in LockInputs, c \in {"None", "True"},
                                l \in {"unpassed", "False"}}]

LockNext ==
    \E h \in Sessions :
       \/ UpdateGet(h)
       \/ UpdateWaits(h)
       \/ UpdateSet(h)
       \/ UpdateFlush(h)
       \/ UpdateCommit(h)
       \/ UpdateRefresh(h)
       \/ CallerCommit(h)

SpecLock == LockInit /\ [][LockNext]_vars

\* C30: no lost update under the default lock. When two update calls that
\* leave with_for_update at its default are made on the same existing record
\* from two sessions and set disjoint fields, then however their reads,
\* assignments, flushes and commits interleave, the record stored once both
\* transactions have committed carries the values of both inputs.
C30_NoLostUpdate ==
    (/\ \A h \in Sessions : Finished(h)
     /\ \A h \in Sessions : txn[h].with_for_update = "unpassed"
     /\ DOMAIN txn[1].input \cap DOMAIN txn[2].input = {}) =>
        \A h \in Sessions : \A f \in DOMAIN txn[h].input :
            RowOf(table, SharedId)[f] = txn[h].input[f]

\* both calls done, the second having waited for the lock of the first
C30_Witness ==
    /\ \A h \in Sessions : Finished(h)
    /\ \A h \in Sessions : txn[h].with_for_update = "unpassed"
    /\ txn[1].input = [k \in {"value"} |-> "y"]
    /\ txn[2].input = [k \in {"nullable_value"} |-> "n"]
    /\ txn[2].waited /\ ~txn[1].waited
    /\ txn[1].auto_commit = "None"
    /\ RowOf(table, SharedId).value = "y"
    /\ RowOf(table, SharedId).nullable_value = "n"

====
